---- MODULE Spec2Model ----
(***************************************************************************)
(* Verification model of native-shell: the typed-tree builder (macro       *)
(* expansion, type assignment, validation, lowering) and the template      *)
(* resolver of the code assembler.                                         *)
(*                                                                         *)
(* The module holds several specifications over disjoint groups of         *)
(* variables:                                                              *)
(*   SpecTemplate  codegen/expand_template.py  (template resolver)         *)
(*   SpecExpand    astgen/gen_final.py         (expand_meta_types)         *)
(*   SpecPipeline  astgen/gen_final.py         (generate_prepared_script)  *)
(*   SpecValidate  astgen/assign_type.py, node_validator.py, gen_root_type *)
(*   SpecHandlers  defs/script.py              (HandlerStore.create)       *)
(*   SpecBuild     defs/parse_tree/defs.py     (the tree-building API)     *)
(*   SpecVisit     astgen/node_visit.py        (post_visit_parsed_node)    *)
(*   SpecPreVisit  astgen/node_visit.py        (pre_visit_parsed_node)     *)
(*   SpecFinish    astgen/gen_final.py         (finish_tree)               *)
(***************************************************************************)
EXTENDS Integers, Sequences, FiniteSets, TLC

VARIABLES
    \* ---- template resolver (codegen/expand_template.py) ----
    refs,       \* CodeRefMap: reference -> sequence of fragment templates
    frames,     \* call stack of _recursive_expand activations
    lists,      \* heap of Python list objects used as `visiting`
    problems,   \* ResultGen problems of expand_template
    t_source,   \* the `source` argument of expand_template
    t_result,   \* text returned by the outermost _recursive_expand
    t_status,   \* "idle" | "running" | "done" | "RecursionError"
    \* ---- parsed tree (defs/parse_tree/defs.py) ----
    nodes,      \* heap of ParsedNode objects, indexed by object identity
    nodes0,     \* history: the heap as the parser handed it over
    \* ---- post-order traversal (astgen/node_visit.py) ----
    vstates,    \* heap of VisitState objects
    stack,      \* the explicit stack of post_visit_parsed_node
    \* ---- expand_meta_types (astgen/gen_final.py) ----
    max_meta_count, \* argument of expand_meta_types
    loop_var,   \* the local name `_` of expand_meta_types (-1: unbound)
    found_meta, \* found_meta[0]
    e_status,   \* "idle" | "sweeping" | "valid" | "invalid" | exception name
    e_problems, \* problems carried by the returned Result
    sweeps,     \* history: replacements made by each finished sweep
    replaced,   \* history: replacements made by the running sweep
    translated, \* history: node ids translate was called on, in order
    \* ---- generate_prepared_script (astgen/gen_final.py) ----
    p_stage,    \* "expand" | "assign" | "validate" | "collect" | "finish" | "done"
    p_status,   \* "running" | "valid" | "invalid" | exception name
    p_problems, \* problems carried by the Result of generate_prepared_script
    pstack,     \* the explicit stack of pre_visit_parsed_node
    r_problems, \* ResultGen.__problems of the running collect_errors / finish_tree
    r_invalid,  \* ResultGen.__invalid of the running collect_errors / finish_tree
    referenced, \* TypedTree.referenced_handlers
    gen,        \* finish_tree: the SyntaxNodes built so far, by node pointer
    finish_calls, \* history: number of invocations of finish_tree
    \* ---- assign_types_to_node / validate_node sweeps ----
    v_stage,    \* "idle" | "assign" | "validate" | "done" | "rooted"
    v_status,   \* "running" | "ok" | exception name
    visited,    \* history: node ids validate_node was called on, in order
    nodes_t,    \* history: the heap as the assigner's sweep left it
    root_type,  \* the "-root" type built by assign_root_node_type
    \* ---- HandlerStore (defs/script.py) ----
    add_ins,        \* the ordered add-in list handed to HandlerStore.create
    h_pos,          \* index of the add-in the loop of create is at
    type_handlers,  \* the dict type_handlers / TypeHandlerStore.__types
    meta_handlers,  \* the dict meta_handlers / HandlerStore.__meta
    h_problems,     \* problems of the ResultGen of create
    h_status,       \* "creating" | "valid" | "invalid"
    prepared_handlers, \* the TypeHandlerStore finish_tree returns (its __types)
    \* ---- calls of the tree-building API (defs/parse_tree/defs.py) ----
    c_last,     \* history: the last call made, its arguments and its exception
    \* ---- a recording visitor (tests/unit_tests/astgen/test_node_visit.py) ----
    order       \* MockVisitor.order: the nodes the visitor was called on

tvars == <<refs, frames, lists, problems, t_source, t_result, t_status>>
evars == <<nodes, nodes0, vstates, stack, max_meta_count, loop_var, found_meta,
           e_status, e_problems, sweeps, replaced, translated>>
pvars == <<p_stage, p_status, p_problems, pstack, r_problems, r_invalid,
           referenced, gen, finish_calls>>
vvars == <<v_stage, v_status, visited, nodes_t, root_type>>
hvars == <<add_ins, h_pos, type_handlers, meta_handlers, h_problems, h_status,
           prepared_handlers>>
cvars == <<c_last>>
ovars == <<order>>
vars == <<tvars, evars, pvars, vvars, hvars, cvars, ovars>>

-----------------------------------------------------------------------------
(* Bounds *)

\* Depth of Python call recursion at which RecursionError is raised.
MaxDepth == 4
\* Longest template (number of parts).
MaxParts == 2
\* Largest max_meta_count handed to expand_meta_types.
MaxRounds == 3
\* Largest number of items the parser puts in one list node.
MaxItems == 2
\* Longest add-in list handed to HandlerStore.create.
MaxAddIns == 2

-----------------------------------------------------------------------------
(* Template resolver                                                       *)

NodeRefs == {"A", "B", "C"}
EXECUTE == "execute"

\* A template part descriptor: literal text "x" or the target of a forward
\* reference.
PartDescs == {"x"} \cup NodeRefs
Templates == UNION { [1..n -> PartDescs] : n \in 0..MaxParts }

\* The fragment lists registered for one (reference, "execute") key: none,
\* exactly one, or two (ambiguous).
FragLists == {<<>>} \cup { <<t>> : t \in Templates } \cup { << <<"x">>, <<"x">> >> }

\* Python values that are compared with == in the resolver.
NodeReference(r) == [tag |-> "NodeReference", path |-> r, purpose |-> "", oid |-> <<>>]
CodeReference(r, p, o) == [tag |-> "CodeReference", path |-> r, purpose |-> p, oid |-> o]

\* The part object at position i of the (single) template of reference r.
\* A CodeReference object is identified by the place it is stored at.
PartAt(r, i) ==
    LET d == refs[r][1][i]
    IN  IF d \in NodeRefs THEN CodeReference(d, EXECUTE, <<r, i>>)
        ELSE [tag |-> "str", path |-> d, purpose |-> "", oid |-> <<>>]

\* Python ==: NodeReference is a tuple (compared by value); CodeReference
\* defines no __eq__ and so is compared by identity.
PyEq(x, y) ==
    IF x.tag = "NodeReference" /\ y.tag = "NodeReference" THEN x.path = y.path
    ELSE IF x.tag = "CodeReference" /\ y.tag = "CodeReference" THEN x.oid = y.oid
    ELSE IF x.tag = "str" /\ y.tag = "str" THEN x.path = y.path
    ELSE FALSE

\* `part in visiting`
PyIn(part, visiting) == \E i \in 1..Len(visiting) : PyEq(visiting[i], part)

\* CodeRefMap.get_for_purpose
get_for_purpose(lookup, purpose) ==
    IF purpose = EXECUTE THEN refs[lookup] ELSE <<>>

Token(k, r, p) == [k |-> k, ref |-> r, purpose |-> p]
CycleProblem(cur, other) == [kind |-> "cycle", source |-> cur, other |-> other]
LookupProblem(kind, r) == [kind |-> kind, source |-> r, other |-> r]

InitTemplate ==
    /\ refs \in [NodeRefs -> FragLists]
    /\ frames = <<>>
    /\ lists = <<>>
    /\ problems = <<>>
    /\ t_source = "-"
    /\ t_result = <<>>
    /\ t_status = "idle"

\* expand_template(source, template, refs) for a registered fragment, as
\* expand_all_purpose calls it.
expand_template(r) ==
    /\ t_status = "idle"
    /\ Len(refs[r]) >= 1
    /\ frames' = << [ref |-> r, idx |-> 1, vis |-> 1, ret |-> <<>>] >>
    /\ lists' = << <<>> >>
    /\ problems' = <<>>
    /\ t_source' = r
    /\ t_status' = "running"
    /\ UNCHANGED <<refs, t_result>>

Top == frames[Len(frames)]
SetTop(f) == [frames EXCEPT ![Len(frames)] = f]

\* One iteration of `for part in template.parts` in the innermost
\* activation of _recursive_expand.
recursive_expand_part ==
    /\ t_status = "running"
    /\ Top.idx <= Len(refs[Top.ref][1])
    /\ LET f == Top
           part == PartAt(f.ref, f.idx)
           visiting == lists[f.vis]
       IN  IF part.tag = "str"
           THEN /\ frames' = SetTop([f EXCEPT !.ret = Append(@, Token("text", part.path, "")),
                                              !.idx = @ + 1])
                /\ UNCHANGED <<lists, problems, t_status>>
           ELSE IF PyIn(part, visiting)
           THEN /\ problems' = Append(problems, CycleProblem(f.ref, part.path))
                /\ frames' = SetTop([f EXCEPT !.ret = Append(@, Token("cycle", part.path, part.purpose)),
                                              !.idx = @ + 1])
                /\ UNCHANGED <<lists, t_status>>
           ELSE IF Len(get_for_purpose(part.path, part.purpose)) <= 0
           THEN /\ problems' = Append(problems, LookupProblem("unknown", part.path))
                /\ frames' = SetTop([f EXCEPT !.ret = Append(@, Token("unknown", part.path, part.purpose)),
                                              !.idx = @ + 1])
                /\ UNCHANGED <<lists, t_status>>
           ELSE IF Len(get_for_purpose(part.path, part.purpose)) > 1
           THEN /\ problems' = Append(problems, LookupProblem("multiple", part.path))
                /\ frames' = SetTop([f EXCEPT !.ret = Append(@, Token("multiple", part.path, part.purpose)),
                                              !.idx = @ + 1])
                /\ UNCHANGED <<lists, t_status>>
           ELSE \* visiting.append(ref); recurse
                /\ lists' = [lists EXCEPT ![f.vis] = Append(@, NodeReference(f.ref))]
                /\ IF Len(frames) >= MaxDepth
                   THEN /\ t_status' = "RecursionError"
                        /\ UNCHANGED frames
                   ELSE /\ frames' = Append(frames,
                                [ref |-> part.path, idx |-> 1, vis |-> f.vis, ret |-> <<>>])
                        /\ UNCHANGED t_status
                /\ UNCHANGED problems
    /\ UNCHANGED <<refs, t_source, t_result>>

\* `return ret` of the innermost activation; the caller then runs
\* `ret += ...` and `visiting = visiting[:-1]`.
recursive_expand_return ==
    /\ t_status = "running"
    /\ Top.idx > Len(refs[Top.ref][1])
    /\ IF Len(frames) = 1
       THEN /\ t_result' = Top.ret
            /\ t_status' = "done"
            /\ frames' = <<>>
            /\ UNCHANGED lists
       ELSE LET c == frames[Len(frames) - 1]
                old == lists[c.vis]
            IN  /\ lists' = Append(lists, SubSeq(old, 1, Len(old) - 1))
                /\ frames' = [SubSeq(frames, 1, Len(frames) - 1) EXCEPT
                                ![Len(frames) - 1] =
                                    [c EXCEPT !.ret = @ \o Top.ret,
                                              !.vis = Len(lists) + 1,
                                              !.idx = @ + 1]]
                /\ UNCHANGED <<t_result, t_status>>
    /\ UNCHANGED <<refs, problems, t_source>>

NextTemplate ==
    \/ \E r \in NodeRefs : expand_template(r)
    \/ recursive_expand_part
    \/ recursive_expand_return

-----------------------------------------------------------------------------
(* Parsed tree: defs/parse_tree/defs.py                                    *)

\* Type ids known to the HandlerStore: four concrete types and four macros.
\* translate of META_SELF returns a subtree that again holds a META_SELF
\* node, translate of META_ONCE returns a plain node, translate of
\* META_FAIL returns an invalid Result with an error-level problem,
\* translate of META_QUIET returns Result.as_error() without any problem
\* ("There may not be any problems ... but the result is still marked as
\* invalid").
TYPE_T == "t"
TYPE_U == "u"
TYPE_F == "f"
TYPE_W == "w"
META_SELF == "m_self"
META_ONCE == "m_once"
META_FAIL == "m_fail"
META_QUIET == "m_quiet"
MetaIds == {META_SELF, META_ONCE, META_FAIL, META_QUIET}
ParamTypeIds == {TYPE_T, TYPE_U} \cup MetaIds
LIST_TYPE_NAME == "list"

\* Order of the keys as Python's sorted() sees them (list indices are
\* ints, parameter keys are strings; the two never meet in one node).
Rank(k) ==
    CASE k = "0" -> 0 [] k = "1" -> 1 [] k = "2" -> 2 [] k = "3" -> 3
      [] k = "a" -> 10 [] k = "b" -> 11 [] k = "c" -> 12 [] k = "d" -> 13
      [] OTHER -> 20

\* A TypeParameter (key, type, is_list, is_required); for a list parameter
\* the ListType bounds of its declaration (max = -1: no maximum).
TypeParameter(key, type, is_list, required, min, max) ==
    [key |-> key, type |-> type, is_list |-> is_list, required |-> required,
     min |-> min, max |-> max]

\* None where a TypeParameter is expected.
NoParam == TypeParameter("", "none", FALSE, FALSE, 0, -1)

TypeField(key, type) == [key |-> key, type |-> type]

BASIC_TYPE_NAMES == {"string", "number", "integer", "boolean", "reference"}

\* The type handlers the add-ins register (TypeHandlerStore.__types): for
\* each type id the parameters() and fields() of handler.type().
Types ==
    [id \in {TYPE_T, TYPE_U, TYPE_F, TYPE_W} |->
        CASE id = TYPE_T ->
                [parameters |-> << TypeParameter("c", TYPE_U, FALSE, TRUE, 0, -1),
                                   TypeParameter("d", "string", FALSE, FALSE, 0, -1) >>,
                 fields |-> <<>>]
          [] id = TYPE_U ->
                [parameters |-> << TypeParameter("a", TYPE_T, FALSE, FALSE, 0, -1),
                                   TypeParameter("b", "string", FALSE, FALSE, 0, -1),
                                   TypeParameter("c", TYPE_T, TRUE, FALSE, 1, 1) >>,
                 fields |-> << TypeField("err", TYPE_F), TypeField("out", TYPE_T) >>]
          [] id = TYPE_W ->
                \* a type whose field names a type no add-in registers
                [parameters |-> << TypeParameter("c", TYPE_U, FALSE, TRUE, 0, -1) >>,
                 fields |-> << TypeField("log", "unregistered") >>]
          [] OTHER ->
                [parameters |-> <<>>, fields |-> <<>>]]

\* TypeHandlerStore.get: is a handler registered under the id?
handlers_get(type_id) == type_id \in DOMAIN Types

ErrorProblem(kind, at) == [level |-> "error", kind |-> kind, at |-> at, key |-> ""]

\* Problem.as_validation with a message that names a key.
KeyProblem(kind, at, key) == [level |-> "error", kind |-> kind, at |-> at, key |-> key]

\* A Problem whose level is never taken for "error".
is_error_never(problem) == FALSE

\* Problem.is_error
is_error(problem) == problem.level = "error"

\* A Problem of level "warning", as a parser may attach to a node.
WarningProblem(kind, at) == [level |-> "warning", kind |-> kind, at |-> at, key |-> ""]

\* A freshly constructed ParsedParameterNode / ParsedListNode /
\* ParsedSimpleNode: no parent, no children, no problems.
ParsedNode(kind, type_id) ==
    [kind |-> kind, type_id |-> type_id,
     parent |-> 0, pkey |-> "", ptype |-> NoParam,
     children |-> <<>>, problems |-> <<>>, invalid |-> FALSE, ref_ok |-> TRUE,
     value_ok |-> TRUE,
     atype |-> IF kind = "list" THEN LIST_TYPE_NAME
               ELSE IF kind = "simple" THEN type_id ELSE "none",
     item_type |-> NoParam]

\* AbcParsedNode.add_problem with one Problem (ResultGen.add).
add_problem(node, problem) ==
    [node EXCEPT !.problems = Append(@, problem),
                 !.invalid = @ \/ is_error(problem)]

\* A ResultGen.add that takes the problems of a Result and ignores that
\* the Result is not valid.
add_result_unflagged(node, result_problems, result_invalid) ==
    [node EXCEPT !.problems = @ \o result_problems]

\* AbcParsedNode.add_problem with a Result (ResultGen.add).
add_result(node, result_problems, result_invalid) ==
    [node EXCEPT !.problems = @ \o result_problems,
                 !.invalid = @ \/ result_invalid]

\* A pass that forgets to skip the nodes that already carry problems.
is_not_valid_ignored(n) == FALSE

\* AbcParsedNode.is_not_valid
is_not_valid(n) == nodes[n].invalid

keys(n) == { nodes[n].children[i].key : i \in 1..Len(nodes[n].children) }

ChildAt(n, k) ==
    LET i == CHOOSE j \in 1..Len(nodes[n].children) : nodes[n].children[j].key = k
    IN  nodes[n].children[i].id

\* ordered_parameters: the (key, child) pairs sorted by key.
ordered_parameters(n) ==
    SortSeq(nodes[n].children, LAMBDA x, y : Rank(x.key) < Rank(y.key))

\* set_parent: the write-once parent link.
parent_is_set(node) == node.parent # 0

\* The nodes reachable from the root (node 1) through children.
RECURSIVE ReachFrom(_, _)
ReachFrom(heap, n) ==
    {n} \cup UNION { ReachFrom(heap, heap[n].children[i].id) : i \in 1..Len(heap[n].children) }
Reachable == ReachFrom(nodes, 1)

\* The trees the parser hands over: a root parameter node, optionally a
\* child at "a" (parameter or list node) with an optional child of its
\* own, optionally a child at "b".
\* What the parser left on a node: nothing, an error, a warning, a node
\* reference that validate_source_path rejects, or (simple node) a value
\* that is not of the declared basic type.
Absent == [kind |-> "none", type_id |-> "", flaw |-> "none"]
ParamChoices ==
    { [kind |-> "param", type_id |-> t, flaw |-> "none"] : t \in ParamTypeIds }
    \cup { [kind |-> "param", type_id |-> t, flaw |-> "error"] : t \in {TYPE_T, META_SELF} }
    \cup { [kind |-> "param", type_id |-> TYPE_U, flaw |-> "ref"] }
ListChoice == [kind |-> "list", type_id |-> LIST_TYPE_NAME, flaw |-> "none"]
SimpleChoice == [kind |-> "simple", type_id |-> "string", flaw |-> "none"]
RootChoices ==
    { [kind |-> "param", type_id |-> t, flaw |-> "none"] : t \in {"", META_SELF, TYPE_U} }
    \cup { [kind |-> "param", type_id |-> TYPE_U, flaw |-> "warning"] }

Chosen(c, parent, key, kids) ==
    LET base == [ParsedNode(c.kind, c.type_id) EXCEPT
                    !.parent = parent, !.pkey = key, !.children = kids]
    IN  CASE c.flaw = "error" -> add_problem(base, ErrorProblem("parser", 0))
          [] c.flaw = "warning" -> add_problem(base, WarningProblem("parser", 0))
          [] c.flaw = "ref" -> [base EXCEPT !.ref_ok = FALSE]
          [] c.flaw = "value" -> [base EXCEPT !.value_ok = FALSE]
          [] OTHER -> base

BuildTree(rt, a, c, b) ==
    LET hasA == a.kind # "none"
        hasC == hasA /\ c.kind # "none"
        hasB == b.kind # "none"
        idA == 2
        idC == 3
        idB == 2 + (IF hasA THEN 1 ELSE 0) + (IF hasC THEN 1 ELSE 0)
        keyC == IF a.kind = "list" THEN "0" ELSE "c"
        rootKids == (IF hasA THEN << [key |-> "a", id |-> idA] >> ELSE <<>>)
                    \o (IF hasB THEN << [key |-> "b", id |-> idB] >> ELSE <<>>)
        aKids == IF hasC THEN << [key |-> keyC, id |-> idC] >> ELSE <<>>
    IN  << Chosen(rt, 0, "", rootKids) >>
        \o (IF hasA THEN << Chosen(a, 1, "a", aKids) >> ELSE <<>>)
        \o (IF hasC THEN << Chosen(c, idA, keyC, <<>>) >> ELSE <<>>)
        \o (IF hasB THEN << Chosen(b, 1, "b", <<>>) >> ELSE <<>>)

ParsedTrees ==
    { BuildTree(rt, a, c, b) :
        rt \in RootChoices,
        a \in {Absent, ListChoice} \cup ParamChoices,
        c \in {Absent, SimpleChoice} \cup ParamChoices,
        b \in {Absent, SimpleChoice} \cup ParamChoices }

-----------------------------------------------------------------------------
(* Handler registry: defs/script.py                                        *)

\* An AddInTypeHandler / AddInMetaTypeHandler object: the id of its type and
\* the place it comes from (add-in and position in the add-in's list).
Handler(id, add_in, slot) == [id |-> id, add_in |-> add_in, slot |-> slot]

\* An AddIn: include_name(), type_handlers(), meta_types() (by type id).
AddIn(name, types, metas) == [name |-> name, types |-> types, metas |-> metas]

\* The add-in lists handed to HandlerStore.create: up to MaxAddIns add-ins,
\* each with up to two type handlers and up to one macro handler, with ids
\* out of HandlerIds; the add-in at position i is named i.
HandlerIds == {"p", "q"}
AddInShapes ==
    { AddIn(0, ts, ms) :
        ts \in UNION { [1..k -> HandlerIds] : k \in 0..2 },
        ms \in UNION { [1..k -> HandlerIds] : k \in 0..1 } }
AddInLists ==
    UNION { { [i \in 1..n |-> AddIn(i, f[i].types, f[i].metas)] : f \in [1..n -> AddInShapes] }
            : n \in 0..MaxAddIns }

\* The duplicate-registration problem of HandlerStore.create; `addins` are
\* the add-ins its message names.
DuplicateProblem(key, addin) ==
    [level |-> "error", kind |-> "duplicate", key |-> key, addins |-> {addin}]

\* `key in type_handlers or key in meta_handlers`
is_registered(th, mh, key) == key \in DOMAIN th \/ key \in DOMAIN mh

\* HandlerStore.create, `for ath in add_in.type_handlers()` from index j on.
RECURSIVE register_type_handlers(_, _, _, _, _)
register_type_handlers(th, mh, ps, add_in, j) ==
    IF j > Len(add_in.types) THEN [th |-> th, mh |-> mh, ps |-> ps]
    ELSE LET key == add_in.types[j]
         IN  IF is_registered(th, mh, key)
             THEN register_type_handlers(th, mh,
                        Append(ps, DuplicateProblem(key, add_in.name)), add_in, j + 1)
             ELSE register_type_handlers(th @@ (key :> Handler(key, add_in.name, j)), mh,
                        ps, add_in, j + 1)

\* HandlerStore.create, `for amh in add_in.meta_types()` from index j on.
RECURSIVE register_meta_types(_, _, _, _, _)
register_meta_types(th, mh, ps, add_in, j) ==
    IF j > Len(add_in.metas) THEN [th |-> th, mh |-> mh, ps |-> ps]
    ELSE LET key == add_in.metas[j]
         IN  IF is_registered(th, mh, key)
             THEN register_meta_types(th, mh,
                        Append(ps, DuplicateProblem(key, add_in.name)), add_in, j + 1)
             ELSE register_meta_types(th, mh @@ (key :> Handler(key, add_in.name, j)),
                        ps, add_in, j + 1)

\* A TypeHandlerStore.include_only that hands back the whole store.
include_all(types_map, types) == types_map

\* TypeHandlerStore.include_only
include_only(types_map, types) ==
    [key \in { k \in DOMAIN types_map : k \in types } |-> types_map[key]]

\* HandlerStore.create(source, add_ins): the state at the head of the loop.
InitHandlers ==
    /\ add_ins \in AddInLists
    /\ h_pos = 1
    /\ type_handlers = <<>>
    /\ meta_handlers = <<>>
    /\ h_problems = <<>>
    /\ h_status = "creating"
    /\ prepared_handlers = <<>>

\* One iteration of `for add_in in add_ins`.
create_add_in ==
    /\ h_status = "creating"
    /\ h_pos <= Len(add_ins)
    /\ LET t == register_type_handlers(type_handlers, meta_handlers, h_problems,
                                       add_ins[h_pos], 1)
           m == register_meta_types(t.th, t.mh, t.ps, add_ins[h_pos], 1)
       IN  /\ type_handlers' = m.th
           /\ meta_handlers' = m.mh
           /\ h_problems' = m.ps
    /\ h_pos' = h_pos + 1
    /\ UNCHANGED <<add_ins, h_status, prepared_handlers>>

\* `return res.build(HandlerStore(type_handlers, meta_handlers))`
create_return ==
    /\ h_status = "creating"
    /\ h_pos > Len(add_ins)
    /\ h_status' = IF \E i \in 1..Len(h_problems) : is_error(h_problems[i]) THEN "invalid" ELSE "valid"
    /\ UNCHANGED <<add_ins, h_pos, type_handlers, meta_handlers, h_problems,
                   prepared_handlers>>

NextHandlers ==
    \/ create_add_in
    \/ create_return

\* The add-in that registers the types and macros of the tree passes.
CoreAddIn == AddIn(1, << TYPE_T, TYPE_U, TYPE_F, TYPE_W >>, << META_SELF, META_ONCE, META_FAIL, META_QUIET >>)

\* The HandlerStore that HandlerStore.create returns for << CoreAddIn >>.
CoreHandlers ==
    /\ add_ins = << CoreAddIn >>
    /\ h_pos = 2
    /\ type_handlers = register_type_handlers(<<>>, <<>>, <<>>, CoreAddIn, 1).th
    /\ meta_handlers = register_meta_types(<<>>, <<>>, <<>>, CoreAddIn, 1).mh
    /\ h_problems = <<>>
    /\ h_status = "valid"
    /\ prepared_handlers = <<>>

-----------------------------------------------------------------------------
(* Post-order traversal: astgen/node_visit.py                              *)

\* VisitState.__init__
VisitState(parent, key, current) ==
    [parent |-> parent, key |-> key, current |-> current, remaining |-> keys(current)]

\* VisitState.is_complete of a VisitState that never waits for children.
is_complete_always(vs) == TRUE

\* VisitState.is_complete
is_complete(vs) == Cardinality(vs.remaining) <= 0

\* VisitState.create_children of the VisitState stored at index v.
create_children(v) ==
    LET ps == ordered_parameters(vstates[v].current)
    IN  [i \in 1..Len(ps) |-> VisitState(v, ps[i].key, ps[i].id)]

\* VisitState.mark_visited of the VisitState stored at index v.
mark_visited(vsh, v) ==
    LET vs == vsh[v]
    IN  IF vs.parent # 0 /\ vs.key \in vsh[vs.parent].remaining
        THEN [vsh EXCEPT ![vs.parent].remaining = @ \ {vs.key}]
        ELSE vsh

TopVS == stack[Len(stack)]
Pop(st) == SubSeq(st, 1, Len(st) - 1)

\* post_visit_parsed_node: the popped VisitState is not complete; it is
\* pushed back, followed by its children.
PushChildren ==
    LET v == TopVS
        kids == create_children(v)
    IN  /\ vstates' = vstates \o kids
        /\ stack' = stack \o [i \in 1..Len(kids) |-> Len(vstates) + i]

\* post_visit_parsed_node(root, visitor): the initial stack.
StartVisit ==
    /\ vstates' = << VisitState(0, "", 1) >>
    /\ stack' = <<1>>

-----------------------------------------------------------------------------
(* Macro expansion: astgen/gen_final.py, expand_meta_types                 *)

\* HandlerStore.get_meta_handler: is a macro handler registered for the id?
get_meta_handler(type_id) == type_id \in MetaIds

\* AddInMetaTypeHandler.translate for the three macros: the Result and the
\* freshly built nodes of the returned subtree (its root comes first).
translate(n) ==
    LET p == Len(nodes) + 1
    IN  CASE nodes[n].type_id = META_SELF ->
                [valid |-> TRUE, problems |-> <<>>,
                 fresh |-> << [ParsedNode("param", TYPE_T) EXCEPT
                                  !.children = << [key |-> "c", id |-> p + 1] >>],
                              [ParsedNode("param", META_SELF) EXCEPT
                                  !.parent = p, !.pkey = "c"] >>]
          [] nodes[n].type_id = META_ONCE ->
                [valid |-> TRUE, problems |-> <<>>,
                 fresh |-> << ParsedNode("param", TYPE_T) >>]
          [] nodes[n].type_id = META_QUIET ->
                [valid |-> FALSE, problems |-> <<>>, fresh |-> <<>>]
          [] OTHER ->
                [valid |-> FALSE, problems |-> << ErrorProblem("translate", n) >>,
                 fresh |-> <<>>]

\* replace_value without `node.set_parent(...)`: the new child is stored
\* but its parent link is not written.
replace_value_unlinked(h, container, key, new) ==
    LET i == CHOOSE j \in 1..Len(h[container].children) : h[container].children[j].key = key
    IN  [h EXCEPT ![container].children[i].id = new]

\* ParsedParameterNode.replace_value / ParsedListNode.replace_value on the
\* heap h: the child of `container` at `key` becomes `new`; `new` gets its
\* parent link (set_parent).
replace_value(h, container, key, new) ==
    LET i == CHOOSE j \in 1..Len(h[container].children) : h[container].children[j].key = key
    IN  [h EXCEPT ![new].parent = container,
                  ![new].pkey = key,
                  ![container].children[i].id = new]

\* Calling the name `_` inside expand_meta_types.  The `for _ in range(...)`
\* loop makes `_` a local of expand_meta_types, so neither the visitor
\* closure nor the code after the loop sees the module-level i18n function:
\* the call raises.
call_underscore ==
    IF loop_var < 0 THEN "UnboundLocalError" ELSE "TypeError"

InitExpand ==
    /\ nodes \in ParsedTrees
    /\ nodes0 = nodes
    /\ max_meta_count \in 0..MaxRounds
    /\ vstates = <<>>
    /\ stack = <<>>
    /\ loop_var = -1
    /\ found_meta = FALSE
    /\ e_status = "idle"
    /\ e_problems = <<>>
    /\ sweeps = <<>>
    /\ replaced = 0
    /\ translated = <<>>

\* Entry of expand_meta_types up to the first iteration of the loop.
expand_meta_types ==
    /\ e_status = "idle"
    /\ IF max_meta_count > 0
       THEN /\ loop_var' = 0
            /\ found_meta' = FALSE
            /\ StartVisit
            /\ e_status' = "sweeping"
       ELSE /\ e_status' = call_underscore
            /\ UNCHANGED <<loop_var, found_meta, vstates, stack>>
    /\ UNCHANGED <<nodes, nodes0, max_meta_count, e_problems, sweeps, replaced, translated>>

\* post_visit_parsed_node: pop a VisitState that still waits for children.
expand_visit_descend ==
    /\ e_status = "sweeping"
    /\ stack # <<>>
    /\ ~is_complete(vstates[TopVS])
    /\ PushChildren
    /\ UNCHANGED <<nodes, nodes0, max_meta_count, loop_var, found_meta, e_status,
                   e_problems, sweeps, replaced, translated>>

\* post_visit_parsed_node: pop a complete VisitState and run the visitor of
\* expand_meta_types on its node, then mark_visited.
expand_visitor ==
    /\ e_status = "sweeping"
    /\ stack # <<>>
    /\ is_complete(vstates[TopVS])
    /\ LET n == vstates[TopVS].current
           done == /\ stack' = Pop(stack)
                   /\ vstates' = mark_visited(vstates, TopVS)
       IN  IF is_not_valid(n)
           THEN /\ done
                /\ UNCHANGED <<nodes, found_meta, e_status, replaced, translated>>
           ELSE IF ~get_meta_handler(nodes[n].type_id)
           THEN /\ done
                /\ UNCHANGED <<nodes, found_meta, e_status, replaced, translated>>
           ELSE IF ~parent_is_set(nodes[n])
           THEN \* Problem.as_validation(..., UserMessage(_("Root node ..."))):
                \* the argument is evaluated first and the call of `_` raises.
                /\ e_status' = call_underscore
                /\ UNCHANGED <<nodes, found_meta, stack, vstates, replaced, translated>>
           ELSE LET child_res == translate(n)
                IN  /\ translated' = Append(translated, n)
                    /\ IF ~child_res.valid
                       THEN /\ nodes' = [nodes EXCEPT ![n] =
                                            add_result(@, child_res.problems, TRUE)]
                            /\ UNCHANGED <<found_meta, replaced>>
                       ELSE /\ found_meta' = TRUE
                            /\ replaced' = replaced + 1
                            /\ nodes' = replace_value(nodes \o child_res.fresh,
                                            nodes[n].parent, nodes[n].pkey, Len(nodes) + 1)
                    /\ done
                    /\ UNCHANGED e_status
    /\ UNCHANGED <<nodes0, max_meta_count, loop_var, e_problems, sweeps>>

\* The end of one iteration of `for _ in range(0, max_meta_count)`: return
\* when the sweep found nothing, start the next sweep, or leave the loop
\* and build the too-many-rounds problem.
expand_round_end ==
    /\ e_status = "sweeping"
    /\ stack = <<>>
    /\ sweeps' = Append(sweeps, replaced)
    /\ replaced' = 0
    /\ IF ~found_meta
       THEN /\ e_status' = "valid"
            /\ UNCHANGED <<loop_var, found_meta, vstates, stack>>
       ELSE IF loop_var + 1 < max_meta_count
       THEN /\ loop_var' = loop_var + 1
            /\ found_meta' = FALSE
            /\ StartVisit
            /\ UNCHANGED e_status
       ELSE /\ e_status' = call_underscore
            /\ UNCHANGED <<loop_var, found_meta, vstates, stack>>
    /\ UNCHANGED <<nodes, nodes0, max_meta_count, e_problems, translated>>

NextExpand ==
    \/ expand_meta_types
    \/ expand_visit_descend
    \/ expand_visitor
    \/ expand_round_end

-----------------------------------------------------------------------------
(* Type assignment and validation of the pipeline: astgen/gen_final.py     *)

\* The outcome of one visitor call: the heap it leaves, the exception it
\* raised ("" for none) and the type ids it marked as referenced.
Outcome(h, exc, refd) == [h |-> h, exc |-> exc, refd |-> refd]

\* node.add_problem(Problem.as_validation(...)) on node n of the heap h.
addp(h, n, problem) == [h EXCEPT ![n] = add_problem(@, problem)]

\* pre_visit_parsed_node without `stack.extend(...)`: the children of the
\* visited node are not pushed.
pre_visit_next_no_children(st) == Pop(st)

\* pre_visit_parsed_node: the stack once its top node was popped and
\* visited and the node's ordered children were pushed.
pre_visit_next(st) ==
    LET ps == ordered_parameters(st[Len(st)])
    IN  Pop(st) \o [i \in 1..Len(ps) |-> ps[i].id]

\* The first declared parameter of the type with the given key, or None.
ParamFor(type_id, key) ==
    LET ps == Types[type_id].parameters
        hit == { i \in 1..Len(ps) : ps[i].key = key }
    IN  IF hit = {} THEN NoParam
        ELSE ps[CHOOSE i \in hit : \A j \in hit : i <= j]

\* TypedTree.mark_referenced for a TypeParameter: only an AbcType is added.
mark_referenced(param_type) ==
    IF param_type.type \in BASIC_TYPE_NAMES THEN {} ELSE {param_type.type}

\* ParentReference.set_parameter_type: may only be called once.
set_parameter_type(h, n, param_type, refd) ==
    IF h[n].ptype # NoParam
    THEN Outcome(h, "RuntimeError", refd)
    ELSE Outcome([h EXCEPT ![n].ptype = param_type], "", refd)

\* The visitor of assign_types.
assign_types_visitor(h, n) ==
    LET node == h[n]
        isParam == node.kind = "param"
    IN  IF node.invalid THEN Outcome(h, "", {})
        ELSE IF isParam /\ ~handlers_get(node.type_id)
        THEN Outcome(addp(h, n, ErrorProblem("unknown_type", n)), "", {})
        ELSE IF isParam /\ node.atype # "none"
        THEN Outcome(h, "RuntimeError", {})
        ELSE
        LET h1 == IF isParam THEN [h EXCEPT ![n].atype = node.type_id] ELSE h
            r1 == IF isParam THEN {node.type_id} ELSE {}
        IN  IF node.parent = 0 THEN Outcome(h1, "", r1)
            ELSE
            LET par == h1[node.parent]
            IN  IF par.invalid THEN Outcome(h1, "", r1)
                ELSE IF par.kind = "list"
                THEN IF par.item_type = NoParam
                     THEN Outcome(h1, "RuntimeError", r1)
                     ELSE set_parameter_type(h1, n, par.item_type, r1)
                ELSE IF par.kind = "param"
                THEN IF handlers_get(par.type_id)
                     THEN LET param_type == ParamFor(par.type_id, node.pkey)
                          IN  IF param_type = NoParam
                              THEN Outcome(addp(h1, n, KeyProblem("undefined_key", n, node.pkey)),
                                           "", r1)
                              ELSE IF node.kind = "list" /\ node.item_type # NoParam
                              THEN Outcome(h1, "RuntimeError", r1)
                              ELSE set_parameter_type(
                                      IF node.kind = "list"
                                      THEN [h1 EXCEPT ![n].item_type = param_type]
                                      ELSE h1,
                                      n, param_type, r1 \cup mark_referenced(param_type))
                     ELSE Outcome(addp(h1, n, ErrorProblem("parent_unknown_type", n)), "", r1)
                ELSE Outcome(h1, "RuntimeError", r1)

\* validate_nodes, the loop over node_type.parameters() from index i on:
\* a present child of another type gets a problem of its own, an absent
\* required key is a problem of the node.
RECURSIVE check_declared_parameters(_, _, _, _)
check_declared_parameters(h, n, params, i) ==
    IF i > Len(params) THEN h
    ELSE LET param == params[i]
             present == param.key \in keys(n)
             val == ChildAt(n, param.key)
             h1 == IF present /\ h[val].atype # param.type
                   THEN addp(h, val, KeyProblem("child_type", val, param.key))
                   ELSE h
             h2 == IF ~present /\ param.required
                   THEN addp(h1, n, KeyProblem("missing_key", n, param.key))
                   ELSE h1
         IN  check_declared_parameters(h2, n, params, i + 1)

\* The visitor of validate_nodes.
validate_nodes_visitor(h, n) ==
    LET node == h[n]
        ppt == node.ptype
        hasType == node.parent # 0 /\ ppt # NoParam
        h1 == IF hasType /\ ppt.type # node.atype
              THEN addp(h, n, KeyProblem("parent_type", n, node.pkey))
              ELSE h
        asList == IF hasType /\ ppt.is_list
                  THEN addp(h1, n, ErrorProblem("marked_list", n))
                  ELSE h1
    IN  IF node.invalid THEN Outcome(h, "", {})
        ELSE IF node.atype = "none"
        THEN Outcome(addp(h, n, ErrorProblem("no_type", n)), "", {})
        ELSE IF node.kind = "list"
        THEN IF node.item_type = NoParam \/ ~node.item_type.is_list
             THEN Outcome(addp(h1, n, ErrorProblem("not_list", n)), "", {})
             ELSE LET bad == SelectSeq(node.children,
                                LAMBDA c : h1[c.id].atype # node.item_type.type)
                      ps == [i \in 1..Len(bad) |-> KeyProblem("item_type", n, bad[i].key)]
                  IN  Outcome([h1 EXCEPT ![n] = add_result(@, ps, ps # <<>>)], "", {})
        ELSE IF node.kind = "param"
        THEN IF node.atype \notin DOMAIN Types
             THEN Outcome(asList, "RuntimeError", {})
             ELSE LET h3 == check_declared_parameters(asList, n,
                                Types[node.atype].parameters, 1)
                  IN  \* remaining_children is a copy of the mapping that
                      \* nothing is ever removed from.
                      IF keys(n) # {}
                      THEN Outcome(addp(h3, n, ErrorProblem("unknown_keys", n)), "", {})
                      ELSE Outcome(h3, "", {})
        ELSE Outcome(asList, "", {})

\* validate_source_path(node.node_id.ref)
validate_source_path(n) ==
    IF nodes[n].ref_ok THEN <<>> ELSE << ErrorProblem("source_path", n) >>

\* ResultGen.add of a sequence of problems: the new __invalid flag.
add_invalid(invalid, ps) == invalid \/ \E i \in 1..Len(ps) : is_error(ps[i])

-----------------------------------------------------------------------------
(* Lowering: astgen/gen_final.py, finish_tree                              *)

\* ParsedNodeId.node_ptr: every node of the tree has a source path of its own.
node_ptr(n) == n

\* gen.get(ptr) found a SyntaxNode.
gen_has(g, ptr) == \E x \in g : x.ptr = ptr

\* A visitor that builds the SyntaxNode and does not store it.
gen_put_dropped(g, x) == g

\* gen[ptr] = SyntaxNode(...)
gen_put(g, x) == { y \in g : y.ptr # x.ptr } \cup {x}

\* The `children` dict the visitor of finish_tree builds for node n: one
\* entry per key of node.mapping(), a literal for a simple child, else the
\* SyntaxNode generated for the child.
SyntaxValues(n) ==
    [i \in 1..Len(nodes[n].children) |->
        LET c == nodes[n].children[i]
        IN  [key |-> c.key,
             literal |-> nodes[c.id].kind = "simple",
             \* child.value, named by the simple node that holds it
             value |-> IF nodes[c.id].kind = "simple" THEN c.id ELSE 0,
             node |-> IF nodes[c.id].kind = "simple" THEN 0 ELSE node_ptr(c.id)]]

SyntaxNode(n) ==
    [ptr |-> node_ptr(n), node_type |-> nodes[n].atype, values |-> SyntaxValues(n)]

-----------------------------------------------------------------------------
(* generate_prepared_script: astgen/gen_final.py                           *)

InitPipeline ==
    /\ p_stage = "expand"
    /\ p_status = "running"
    /\ p_problems = <<>>
    /\ pstack = <<>>
    /\ r_problems = <<>>
    /\ r_invalid = FALSE
    /\ referenced = {}
    /\ gen = {}
    /\ finish_calls = 0

\* expand_meta_types(...).map_to(assign_types): assign_types starts on a
\* valid Result; an exception of expand_meta_types leaves the pipeline.
map_to_assign_types ==
    /\ p_stage = "expand"
    /\ e_status \notin {"idle", "sweeping"}
    /\ IF e_status = "valid"
       THEN /\ p_stage' = "assign"
            /\ pstack' = <<1>>
            /\ UNCHANGED <<p_status, p_problems>>
       ELSE /\ p_stage' = "done"
            /\ p_status' = e_status
            /\ p_problems' = e_problems
            /\ UNCHANGED pstack
    /\ UNCHANGED <<r_problems, r_invalid, referenced, gen, finish_calls, evars>>

\* One iteration of pre_visit_parsed_node with the visitor of assign_types.
assign_types_visit ==
    /\ p_stage = "assign"
    /\ pstack # <<>>
    /\ LET out == assign_types_visitor(nodes, pstack[Len(pstack)])
       IN  /\ nodes' = out.h
           /\ referenced' = referenced \cup out.refd
           /\ IF out.exc # ""
              THEN /\ p_stage' = "done"
                   /\ p_status' = out.exc
                   /\ UNCHANGED pstack
              ELSE /\ pstack' = pre_visit_next(pstack)
                   /\ UNCHANGED <<p_stage, p_status>>
    /\ UNCHANGED <<p_problems, r_problems, r_invalid, gen, finish_calls>>
    /\ UNCHANGED <<nodes0, vstates, stack, max_meta_count, loop_var, found_meta,
                   e_status, e_problems, sweeps, replaced, translated>>

\* .map_to(validate_nodes)
map_to_validate_nodes ==
    /\ p_stage = "assign"
    /\ pstack = <<>>
    /\ p_stage' = "validate"
    /\ pstack' = <<1>>
    /\ UNCHANGED <<p_status, p_problems, r_problems, r_invalid, referenced, gen,
                   finish_calls, evars>>

\* One iteration of pre_visit_parsed_node with the visitor of validate_nodes.
validate_nodes_visit ==
    /\ p_stage = "validate"
    /\ pstack # <<>>
    /\ LET out == validate_nodes_visitor(nodes, pstack[Len(pstack)])
       IN  /\ nodes' = out.h
           /\ IF out.exc # ""
              THEN /\ p_stage' = "done"
                   /\ p_status' = out.exc
                   /\ UNCHANGED pstack
              ELSE /\ pstack' = pre_visit_next(pstack)
                   /\ UNCHANGED <<p_stage, p_status>>
    /\ UNCHANGED <<p_problems, r_problems, r_invalid, referenced, gen, finish_calls>>
    /\ UNCHANGED <<nodes0, vstates, stack, max_meta_count, loop_var, found_meta,
                   e_status, e_problems, sweeps, replaced, translated>>

\* .map_result(collect_errors): a fresh ResultGen and the first VisitState.
map_result_collect_errors ==
    /\ p_stage = "validate"
    /\ pstack = <<>>
    /\ p_stage' = "collect"
    /\ r_problems' = <<>>
    /\ r_invalid' = FALSE
    /\ StartVisit
    /\ UNCHANGED <<p_status, p_problems, pstack, referenced, gen, finish_calls>>
    /\ UNCHANGED <<nodes, nodes0, max_meta_count, loop_var, found_meta,
                   e_status, e_problems, sweeps, replaced, translated>>

\* post_visit_parsed_node inside collect_errors or finish_tree: pop a
\* VisitState that still waits for children.
lower_visit_descend ==
    /\ p_stage \in {"collect", "finish"}
    /\ stack # <<>>
    /\ ~is_complete(vstates[TopVS])
    /\ PushChildren
    /\ UNCHANGED pvars
    /\ UNCHANGED <<nodes, nodes0, max_meta_count, loop_var, found_meta,
                   e_status, e_problems, sweeps, replaced, translated>>

\* The visitor of collect_errors on a complete VisitState.
collect_errors_visitor ==
    /\ p_stage = "collect"
    /\ stack # <<>>
    /\ is_complete(vstates[TopVS])
    /\ LET n == vstates[TopVS].current
           ps == validate_source_path(n) \o nodes[n].problems
       IN  /\ r_problems' = r_problems \o ps
           /\ r_invalid' = add_invalid(r_invalid, ps)
    /\ stack' = Pop(stack)
    /\ vstates' = mark_visited(vstates, TopVS)
    /\ UNCHANGED <<p_stage, p_status, p_problems, pstack, referenced, gen, finish_calls>>
    /\ UNCHANGED <<nodes, nodes0, max_meta_count, loop_var, found_meta,
                   e_status, e_problems, sweeps, replaced, translated>>

\* collect_errors returns res.build(tree); .map_result(finish_tree) calls
\* finish_tree only on a valid Result.
map_result_finish_tree ==
    /\ p_stage = "collect"
    /\ stack = <<>>
    /\ IF r_invalid
       THEN /\ p_stage' = "done"
            /\ p_status' = "invalid"
            /\ p_problems' = r_problems
            /\ UNCHANGED <<r_problems, r_invalid, gen, finish_calls, vstates, stack>>
       ELSE /\ p_stage' = "finish"
            /\ finish_calls' = finish_calls + 1
            /\ r_problems' = <<>>
            /\ r_invalid' = FALSE
            /\ gen' = {}
            /\ StartVisit
            /\ UNCHANGED <<p_status, p_problems>>
    /\ UNCHANGED <<pstack, referenced>>
    /\ UNCHANGED <<nodes, nodes0, max_meta_count, loop_var, found_meta,
                   e_status, e_problems, sweeps, replaced, translated>>

\* The visitor of finish_tree on a complete VisitState.
finish_tree_visitor ==
    /\ p_stage = "finish"
    /\ stack # <<>>
    /\ is_complete(vstates[TopVS])
    /\ LET n == vstates[TopVS].current
           node == nodes[n]
           lost == SelectSeq(node.children,
                       LAMBDA c : /\ nodes[c.id].kind # "simple"
                                  /\ ~gen_has(gen, node_ptr(c.id)))
       IN  IF node.kind = "simple"
           THEN UNCHANGED <<gen, r_problems, r_invalid, p_stage, p_status>>
           ELSE IF node.atype = "none" \/ is_not_valid(n)
           THEN /\ r_invalid' = TRUE
                /\ UNCHANGED <<gen, r_problems, p_stage, p_status>>
           ELSE IF node.atype \in BASIC_TYPE_NAMES
           THEN /\ p_stage' = "done"
                /\ p_status' = "RuntimeError"
                /\ UNCHANGED <<gen, r_problems, r_invalid>>
           ELSE /\ r_problems' = r_problems \o
                        [i \in 1..Len(lost) |-> KeyProblem("not_generated", n, lost[i].key)]
                /\ r_invalid' = (r_invalid \/ lost # <<>>)
                /\ gen' = IF lost = <<>> THEN gen_put(gen, SyntaxNode(n)) ELSE gen
                /\ UNCHANGED <<p_stage, p_status>>
    /\ stack' = Pop(stack)
    /\ vstates' = mark_visited(vstates, TopVS)
    /\ UNCHANGED <<p_problems, pstack, referenced, finish_calls>>
    /\ UNCHANGED <<nodes, nodes0, max_meta_count, loop_var, found_meta,
                   e_status, e_problems, sweeps, replaced, translated>>

\* finish_tree returns res.build_with(...); .map_to(PreparedScript) wraps
\* a valid Result.
finish_tree_return ==
    /\ p_stage = "finish"
    /\ stack = <<>>
    /\ p_stage' = "done"
    /\ p_problems' = r_problems
    /\ p_status' = IF r_invalid THEN "invalid"
                   ELSE IF ~gen_has(gen, node_ptr(1)) THEN "KeyError"
                   ELSE "valid"
    /\ prepared_handlers' = IF ~r_invalid /\ gen_has(gen, node_ptr(1))
                            THEN include_only(type_handlers, referenced)
                            ELSE prepared_handlers
    /\ UNCHANGED <<pstack, r_problems, r_invalid, referenced, gen, finish_calls, evars>>
    /\ UNCHANGED <<add_ins, h_pos, type_handlers, meta_handlers, h_problems, h_status>>

NextPipeline ==
    \/ expand_meta_types /\ UNCHANGED <<pvars, hvars>>
    \/ expand_visit_descend /\ UNCHANGED <<pvars, hvars>>
    \/ expand_visitor /\ UNCHANGED <<pvars, hvars>>
    \/ expand_round_end /\ UNCHANGED <<pvars, hvars>>
    \/ map_to_assign_types /\ UNCHANGED hvars
    \/ assign_types_visit /\ UNCHANGED hvars
    \/ map_to_validate_nodes /\ UNCHANGED hvars
    \/ validate_nodes_visit /\ UNCHANGED hvars
    \/ map_result_collect_errors /\ UNCHANGED hvars
    \/ lower_visit_descend /\ UNCHANGED hvars
    \/ collect_errors_visitor /\ UNCHANGED hvars
    \/ map_result_finish_tree /\ UNCHANGED hvars
    \/ finish_tree_visitor /\ UNCHANGED hvars
    \/ finish_tree_return

-----------------------------------------------------------------------------
(* The trees of the assigner and validator sweeps.  A root parameter node  *)
(* with the empty type id, a parameter node at "a", below it optionally a  *)
(* child at "c" (simple, parameter or list node with up to MaxItems        *)
(* items) and a child at "d".                                              *)

IndexKey(i) == CASE i = 1 -> "0" [] i = 2 -> "1" [] i = 3 -> "2" [] OTHER -> "3"

SimpleOf(basic, flaw) == [kind |-> "simple", type_id |-> basic, flaw |-> flaw]
ParamOf(type_id, flaw) == [kind |-> "param", type_id |-> type_id, flaw |-> flaw]

AChoices == { ParamOf(t, "none") : t \in {TYPE_T, TYPE_U, TYPE_W, "x"} }
ItemChoices == { ParamOf(TYPE_T, "none"), ParamOf(TYPE_U, "none"), SimpleOf("string", "none") }
ItemSeqs == UNION { [1..k -> ItemChoices] : k \in 0..MaxItems }
CChoices == { Absent, ListChoice, SimpleOf("string", "none"),
              ParamOf(TYPE_T, "none"), ParamOf(TYPE_U, "none"), ParamOf(TYPE_T, "error") }
DChoices == { Absent, SimpleOf("string", "none"), SimpleOf("string", "value"),
              SimpleOf("number", "none"), ParamOf(TYPE_T, "none") }

BuildTypedTree(a, c, items, d) ==
    LET hasC == c.kind # "none"
        hasD == d.kind # "none"
        n == IF c.kind = "list" THEN Len(items) ELSE 0
        idC == 3
        idD == 3 + (IF hasC THEN 1 + n ELSE 0)
        aKids == (IF hasC THEN << [key |-> "c", id |-> idC] >> ELSE <<>>)
                 \o (IF hasD THEN << [key |-> "d", id |-> idD] >> ELSE <<>>)
        cKids == [i \in 1..n |-> [key |-> IndexKey(i), id |-> idC + i]]
    IN  << Chosen(ParamOf("", "none"), 0, "", << [key |-> "a", id |-> 2] >>),
           Chosen(a, 1, "a", aKids) >>
        \o (IF hasC THEN << Chosen(c, 2, "c", cKids) >> ELSE <<>>)
        \o [i \in 1..n |-> Chosen(items[i], idC, IndexKey(i), <<>>)]
        \o (IF hasD THEN << Chosen(d, 2, "d", <<>>) >> ELSE <<>>)

TypedTrees ==
    { BuildTypedTree(a, c, items, d) :
        a \in AChoices, c \in CChoices, items \in ItemSeqs, d \in DChoices }

-----------------------------------------------------------------------------
(* Type assignment: astgen/assign_type.py                                  *)

\* A TypedTree whose mark_referenced records nothing.
tree_mark_referenced_nothing(type_id) == {}

\* TypedTree.mark_referenced (typed_tree.py) for a parameter or a handler:
\* the id of value.type().
tree_mark_referenced(type_id) == {type_id}

\* setup_types_for_parameter_node: `err` is the value it returns.
setup_types_for_parameter_node(h, n) ==
    LET node == h[n]
    IN  IF ~handlers_get(node.type_id)
        THEN [h |-> addp(h, n, ErrorProblem("unknown_type", n)),
              exc |-> "", refd |-> {}, err |-> TRUE]
        ELSE IF node.atype # "none"
        THEN [h |-> h, exc |-> "RuntimeError",
              refd |-> tree_mark_referenced(node.type_id), err |-> FALSE]
        ELSE
        LET fields == Types[node.type_id].fields
            orphan == SelectSeq(fields, LAMBDA f : ~handlers_get(f.type))
            ps == [i \in 1..Len(orphan) |-> KeyProblem("field_no_handler", n, orphan[i].key)]
        IN  [h |-> [h EXCEPT ![n] = add_result([@ EXCEPT !.atype = node.type_id],
                                               ps, ps # <<>>)],
             exc |-> "",
             refd |-> tree_mark_referenced(node.type_id)
                      \cup UNION { tree_mark_referenced(fields[i].type) :
                                     i \in { j \in 1..Len(fields) : handlers_get(fields[j].type) } },
             err |-> FALSE]

\* assign_types_to_node
assign_types_to_node(h, n) ==
    LET node == h[n]
    IN  IF node.invalid THEN Outcome(h, "", {})
        ELSE IF node.parent = 0
        THEN IF node.type_id # ""
             THEN Outcome(addp(h, n, ErrorProblem("root_type_id", n)), "", {})
             ELSE Outcome(h, "", {})
        ELSE
        LET s == IF node.kind = "param"
                 THEN setup_types_for_parameter_node(h, n)
                 ELSE [h |-> h, exc |-> "", refd |-> {}, err |-> FALSE]
            h1 == s.h
            par == h1[node.parent]
        IN  IF s.exc # "" \/ s.err THEN Outcome(s.h, s.exc, s.refd)
            ELSE IF par.invalid \/ par.type_id = "" THEN Outcome(h1, "", s.refd)
            ELSE IF par.kind = "list"
            THEN IF par.item_type = NoParam
                 THEN Outcome(h1, "", s.refd)
                 ELSE set_parameter_type(h1, n, par.item_type, s.refd)
            ELSE IF par.kind = "param"
            THEN IF handlers_get(par.type_id)
                 THEN LET param_type == ParamFor(par.type_id, node.pkey)
                      IN  IF param_type = NoParam
                          THEN Outcome(addp(h1, n, KeyProblem("undefined_key", n, node.pkey)),
                                       "", s.refd)
                          ELSE IF node.kind = "list" /\ node.item_type # NoParam
                          THEN Outcome(h1, "RuntimeError", s.refd)
                          ELSE set_parameter_type(
                                  IF node.kind = "list"
                                  THEN [h1 EXCEPT ![n].item_type = param_type]
                                  ELSE h1,
                                  n, param_type,
                                  s.refd \cup tree_mark_referenced(param_type.type))
                 ELSE Outcome(addp(h1, n, ErrorProblem("parent_unknown_type", n)), "", s.refd)
            ELSE Outcome(h1, "RuntimeError", s.refd)

-----------------------------------------------------------------------------
(* Validation: astgen/node_validator.py                                    *)

\* node.add_problem for each problem of ps, in order.
addps(h, n, ps) == [h EXCEPT ![n] = add_result(@, ps, ps # <<>>)]

\* `node_type is not param_type.type()` never holds: the declared type is
\* taken for the node's type whatever it is.
type_differs_never(node_type, param_type) == FALSE

\* `node_type is not param_type.type()` / `param_type.type() != node_type`
type_differs(node_type, param_type) == node_type # param_type.type

\* `node_type is not parent.node.get_item_type()`: an AbcType compared by
\* identity with the TypeParameter that get_item_type returns.
is_not_item_type(node_type, item_type) == TRUE

\* The problems for the parameter type the parent holds for this node
\* (check_simple_node and check_parameter_node share the two tests).
parent_parameter_problems(n, node_type, param_type) ==
    IF param_type = NoParam THEN <<>>
    ELSE (IF type_differs(node_type, param_type)
          THEN << KeyProblem("type_mismatch", n, param_type.key) >> ELSE <<>>)
         \o (IF param_type.is_list
             THEN << KeyProblem("expected_list", n, param_type.key) >> ELSE <<>>)

\* check_simple_node
check_simple_node(h, n) ==
    LET node == h[n]
        par == h[node.parent]
    IN  IF node.atype \notin BASIC_TYPE_NAMES
        THEN addp(h, n, ErrorProblem("class_mismatch", n))
        ELSE addps(h, n,
                (IF par.kind = "list" /\ par.item_type # NoParam
                    /\ node.atype # par.item_type.type
                 THEN << ErrorProblem("list_item_mismatch", n) >> ELSE <<>>)
                \o (IF par.kind = "param"
                    THEN parent_parameter_problems(n, node.atype, node.ptype) ELSE <<>>)
                \o (IF ~node.value_ok
                    THEN << ErrorProblem("value_type", n) >> ELSE <<>>))

\* check_list_node
check_list_node(h, n) ==
    LET node == h[n]
        par == h[node.parent]
        param_type == node.ptype
    IN  IF node.atype # LIST_TYPE_NAME
        THEN addp(h, n, ErrorProblem("class_mismatch", n))
        ELSE addps(h, n,
                (IF par.kind = "list"
                 THEN << ErrorProblem("list_in_list", n) >> ELSE <<>>)
                \o (IF par.kind = "param" /\ param_type # NoParam
                    THEN (IF node.item_type # NoParam
                             /\ param_type.type # node.item_type.type
                          THEN << KeyProblem("type_mismatch", n, param_type.key) >>
                          ELSE <<>>)
                         \o (IF ~param_type.is_list
                             THEN << KeyProblem("not_declared_list", n, param_type.key) >>
                             ELSE <<>>)
                    ELSE <<>>))

\* check_parameter_node, "Attach the problem to the child": the node whose
\* add_problem receives the unknown-key problem.
unknown_key_holder(n, child) == n

\* check_parameter_node, lines 316-330: one problem per present key that
\* the type does not declare, from child index i on.
RECURSIVE unknown_key_problems(_, _, _, _)
unknown_key_problems(h, n, declared, i) ==
    IF i > Len(h[n].children) THEN h
    ELSE LET c == h[n].children[i]
             h1 == IF c.key \in declared THEN h
                   ELSE addp(h, unknown_key_holder(n, c.id),
                             KeyProblem("unknown_key", c.id, c.key))
         IN  unknown_key_problems(h1, n, declared, i + 1)

\* check_parameter_node
check_parameter_node(h, n) ==
    LET node == h[n]
        par == h[node.parent]
        params == Types[node.atype].parameters
        declared == { params[i].key : i \in 1..Len(params) }
        absent == SelectSeq(params, LAMBDA q : q.key \notin keys(n) /\ q.required)
    IN  IF node.atype \notin DOMAIN Types
        THEN addp(h, n, ErrorProblem("class_mismatch", n))
        ELSE LET h1 == addps(h, n,
                          (IF par.kind = "list" /\ is_not_item_type(node.atype, par.item_type)
                           THEN << ErrorProblem("list_item_mismatch", n) >> ELSE <<>>)
                          \o (IF par.kind = "param"
                              THEN parent_parameter_problems(n, node.atype, node.ptype)
                              ELSE <<>>))
                 h2 == unknown_key_problems(h1, n, declared, 1)
             IN  addps(h2, n, [i \in 1..Len(absent) |->
                                  KeyProblem("missing_key", n, absent[i].key)])

\* check_root_node
check_root_node(h, n) ==
    IF h[n].kind # "param" THEN addp(h, n, ErrorProblem("root_kind", n)) ELSE h

\* validate_node
validate_node(h, n) ==
    IF h[n].parent # 0
    THEN IF h[n].atype = "none"
         THEN addp(h, n, ErrorProblem("no_type", n))
         ELSE CASE h[n].kind = "simple" -> check_simple_node(h, n)
                [] h[n].kind = "list" -> check_list_node(h, n)
                [] OTHER -> check_parameter_node(h, n)
    ELSE check_root_node(h, n)

-----------------------------------------------------------------------------
(* Root type synthesis: astgen/gen_root_type.py                            *)

ROOT_TYPE_ID == "-root"

\* No type object was built.
NoType == [built |-> FALSE, type_id |-> "", parameters |-> <<>>, fields |-> <<>>]

\* DefaultType(source=, type_id=, title=, description=, parameters=, fields=)
DefaultType(type_id, parameters, fields) ==
    [built |-> TRUE, type_id |-> type_id, parameters |-> parameters, fields |-> fields]

\* DefaultTypeParameter(key=, is_list=, type_val=, title=, description=,
\* required=): __init__ takes key, title, description, required and
\* type_checker only, so the call raises.
DefaultTypeParameter(key, is_list, type_val, required) ==
    [exc |-> "TypeError", param |-> NoParam]

\* isinstance(handler_type, ConstructType): DefaultType derives from the
\* AbcType of defs/syntax_tree, not from the ConstructType of defs/node_type.
is_construct_type(type_val) == FALSE

\* TypeHandlerStore.add_dynamic
add_dynamic(types_map, type_val) ==
    IF type_val.type_id \in DOMAIN types_map
    THEN [exc |-> "ValueError", types |-> types_map]
    ELSE [exc |-> "", types |-> types_map @@ (type_val.type_id :> Handler(type_val.type_id, 0, 0))]

\* TypedTree.assign_root_type
assign_root_type(h, types_map, type_val) ==
    IF h[1].atype # "none" \/ ~is_construct_type(type_val)
    THEN [h |-> h, handlers |-> types_map, exc |-> "RuntimeError", refd |-> {}]
    ELSE LET dyn == add_dynamic(types_map, type_val)
         IN  [h |-> [h EXCEPT ![1].atype = type_val.type_id],
              handlers |-> dyn.types, exc |-> dyn.exc,
              refd |-> IF dyn.exc = "" THEN tree_mark_referenced(type_val.type_id) ELSE {}]

\* assign_root_node_type, `for name, node in tree.root.mapping().items()`
\* from child index i on: the list `params`, or the exception raised.
RECURSIVE root_parameters(_, _, _)
root_parameters(h, i, params) ==
    IF i > Len(h[1].children) THEN [exc |-> "", params |-> params]
    ELSE LET c == h[1].children[i]
             node_type == h[c.id].atype
         IN  IF node_type = "none" \/ node_type = LIST_TYPE_NAME
             THEN root_parameters(h, i + 1, params)
             ELSE LET p == DefaultTypeParameter(c.key, h[c.id].kind = "list", node_type, TRUE)
                  IN  IF p.exc # "" THEN [exc |-> p.exc, params |-> params]
                      ELSE root_parameters(h, i + 1, Append(params, p.param))

\* assign_root_node_type
assign_root_node_type(h, types_map) ==
    LET ps == root_parameters(h, 1, <<>>)
        type_val == DefaultType(ROOT_TYPE_ID, ps.params, <<>>)
        out == assign_root_type(h, types_map, type_val)
    IN  IF ps.exc # ""
        THEN [h |-> h, handlers |-> types_map, exc |-> ps.exc, refd |-> {}, type_val |-> NoType]
        ELSE [h |-> out.h, handlers |-> out.handlers, exc |-> out.exc, refd |-> out.refd,
              type_val |-> type_val]

-----------------------------------------------------------------------------
(* The two sweeps over the tree (spec 4.4, 4.5): a pre-order sweep that    *)
(* calls assign_types_to_node on every node, then a pre-order sweep that   *)
(* calls validate_node on every node that is still valid.                  *)

IdleValidate ==
    /\ v_stage = "idle"
    /\ v_status = "running"
    /\ visited = <<>>
    /\ nodes_t = <<>>
    /\ root_type = NoType

InitValidate ==
    /\ nodes \in TypedTrees
    /\ nodes0 = nodes
    /\ InitPipeline
    /\ IdleValidate

\* TypedTree(root, handlers) and the start of the assigner's sweep.
assign_start ==
    /\ v_stage = "idle"
    /\ v_stage' = "assign"
    /\ pstack' = <<1>>
    /\ UNCHANGED <<v_status, visited, nodes_t, root_type, referenced, nodes>>

\* One node of the assigner's sweep.
assign_visit ==
    /\ v_stage = "assign"
    /\ pstack # <<>>
    /\ LET out == assign_types_to_node(nodes, pstack[Len(pstack)])
       IN  /\ nodes' = out.h
           /\ referenced' = referenced \cup out.refd
           /\ IF out.exc # ""
              THEN /\ v_stage' = "done"
                   /\ v_status' = out.exc
                   /\ UNCHANGED pstack
              ELSE /\ pstack' = pre_visit_next(pstack)
                   /\ UNCHANGED <<v_stage, v_status>>
    /\ UNCHANGED <<visited, nodes_t, root_type>>

\* The assigner's sweep is over; the validator's sweep starts.
validate_start ==
    /\ v_stage = "assign"
    /\ pstack = <<>>
    /\ v_stage' = "validate"
    /\ pstack' = <<1>>
    /\ nodes_t' = nodes
    /\ UNCHANGED <<v_status, visited, root_type, referenced, nodes>>

\* One node of the validator's sweep.
validate_visit ==
    /\ v_stage = "validate"
    /\ pstack # <<>>
    /\ LET n == pstack[Len(pstack)]
       IN  IF is_not_valid(n)
           THEN UNCHANGED <<nodes, visited>>
           ELSE /\ nodes' = validate_node(nodes, n)
                /\ visited' = Append(visited, n)
    /\ pstack' = pre_visit_next(pstack)
    /\ UNCHANGED <<v_stage, v_status, referenced, nodes_t, root_type>>

\* The validator's sweep is over.
validate_done ==
    /\ v_stage = "validate"
    /\ pstack = <<>>
    /\ v_stage' = "done"
    /\ v_status' = "ok"
    /\ UNCHANGED <<visited, nodes_t, root_type, referenced, nodes, pstack>>

\* The "-root" type is synthesized last, from the children of the root.
root_type_start ==
    /\ v_stage = "done"
    /\ v_status = "ok"
    /\ LET out == assign_root_node_type(nodes, type_handlers)
       IN  /\ nodes' = out.h
           /\ root_type' = out.type_val
           /\ type_handlers' = out.handlers
           /\ referenced' = referenced \cup out.refd
           /\ v_status' = IF out.exc # "" THEN out.exc ELSE "ok"
    /\ v_stage' = "rooted"
    /\ UNCHANGED <<visited, nodes_t, pstack>>
    /\ UNCHANGED <<add_ins, h_pos, meta_handlers, h_problems, h_status, prepared_handlers>>

\* What the two sweeps leave alone.
SweepFrame ==
    UNCHANGED <<nodes0, vstates, stack, max_meta_count, loop_var, found_meta, e_status,
                e_problems, sweeps, replaced, translated, p_stage, p_status, p_problems,
                r_problems, r_invalid, gen, finish_calls>>

NextValidate ==
    \/ assign_start /\ SweepFrame /\ UNCHANGED hvars
    \/ assign_visit /\ SweepFrame /\ UNCHANGED hvars
    \/ validate_start /\ SweepFrame /\ UNCHANGED hvars
    \/ validate_visit /\ SweepFrame /\ UNCHANGED hvars
    \/ validate_done /\ SweepFrame /\ UNCHANGED hvars
    \/ root_type_start /\ SweepFrame

-----------------------------------------------------------------------------
(* The tree-building API of defs/parse_tree/defs.py, as a parser calls it  *)
(* on freshly constructed nodes.                                           *)

\* A call, the node whose cell it writes and the exception it raised (""
\* for none).
Call(op, node, exc) == [op |-> op, node |-> node, exc |-> exc]

NoCall == Call("", 0, "")

IdleCalls == c_last = NoCall

\* The heaps of detached nodes: two containers (a parameter node and a
\* list node) and two nodes to put into them (one of any class and a simple
\* node).
FreshHeaps ==
    { << ParsedNode("param", TYPE_T), ParsedNode("list", LIST_TYPE_NAME), x,
         ParsedNode("simple", "string") >> :
        x \in { ParsedNode("param", TYPE_U), ParsedNode("list", LIST_TYPE_NAME),
                ParsedNode("simple", "string") } }
Containers == {1, 2}
Contained == {3, 4}

\* The TypeParameter objects a client passes to the setters.
CellParams == { ParamFor(TYPE_T, "c"), ParamFor(TYPE_U, "c") }

InitBuild ==
    /\ nodes \in FreshHeaps
    /\ nodes0 = nodes
    /\ c_last = NoCall

\* A set_parent that overwrites the link it finds.
ensure_parent_not_set_skipped(node) == ""

\* _ensure_parent_not_set(node_id, parent)
ensure_parent_not_set(node) == IF node.parent # 0 THEN "RuntimeError" ELSE ""

\* _ensure_type_not_set(node_id, type_val)
ensure_type_not_set(node) == IF node.atype # "none" THEN "RuntimeError" ELSE ""

\* _ensure_type_property_not_set(node_id, type_val)
ensure_type_property_not_set(node) == IF node.item_type # NoParam THEN "RuntimeError" ELSE ""

\* node.set_parent(ParentReference(node=container, key=key)) on the heap h.
set_parent(h, n, container, key) ==
    LET exc == ensure_parent_not_set(h[n])
    IN  IF exc # "" THEN [h |-> h, exc |-> exc]
        ELSE [h |-> [h EXCEPT ![n].parent = container, ![n].pkey = key, ![n].ptype = NoParam],
              exc |-> ""]

\* ParsedParameterNode.set_parameter(key, node)
set_parameter(container, key, n) ==
    /\ nodes[container].kind = "param"
    /\ LET out == IF key \in keys(container) THEN [h |-> nodes, exc |-> "ValueError"]
                  ELSE set_parent(nodes, n, container, key)
       IN  /\ nodes' = IF out.exc # "" THEN out.h
                       ELSE [out.h EXCEPT ![container].children =
                                Append(@, [key |-> key, id |-> n])]
           /\ c_last' = Call("set_parameter", n, out.exc)
    /\ UNCHANGED nodes0

\* ParsedListNode.add_value(node)
add_value(container, n) ==
    /\ nodes[container].kind = "list"
    /\ LET index == IndexKey(Len(nodes[container].children) + 1)
           out == set_parent(nodes, n, container, index)
       IN  /\ nodes' = IF out.exc # "" THEN out.h
                       ELSE [out.h EXCEPT ![container].children =
                                Append(@, [key |-> index, id |-> n])]
           /\ c_last' = Call("add_value", n, out.exc)
    /\ UNCHANGED nodes0

\* ParsedParameterNode.replace_value / ParsedListNode.replace_value
build_replace_value(container, key, n) ==
    /\ nodes[container].kind \in {"param", "list"}
    /\ LET out == IF key \notin keys(container)
                  THEN [h |-> nodes,
                        exc |-> IF nodes[container].kind = "param" THEN "KeyError"
                                ELSE "IndexError"]
                  ELSE set_parent(nodes, n, container, key)
       IN  /\ nodes' = IF out.exc # "" THEN out.h
                       ELSE replace_value(out.h, container, key, n)
           /\ c_last' = Call("replace_value", n, out.exc)
    /\ UNCHANGED nodes0

\* ParsedParameterNode.set_type(type_val)
set_type(n, type_val) ==
    /\ nodes[n].kind = "param"
    /\ LET exc == ensure_type_not_set(nodes[n])
       IN  /\ nodes' = IF exc # "" THEN nodes ELSE [nodes EXCEPT ![n].atype = type_val]
           /\ c_last' = Call("set_type", n, exc)
    /\ UNCHANGED nodes0

\* ParsedListNode.set_item_type(type_val)
set_item_type(n, type_val) ==
    /\ nodes[n].kind = "list"
    /\ LET exc == ensure_type_property_not_set(nodes[n])
       IN  /\ nodes' = IF exc # "" THEN nodes ELSE [nodes EXCEPT ![n].item_type = type_val]
           /\ c_last' = Call("set_item_type", n, exc)
    /\ UNCHANGED nodes0

\* node.get_parent().set_parameter_type(param_type)
build_set_parameter_type(n, param_type) ==
    /\ parent_is_set(nodes[n])
    /\ LET out == set_parameter_type(nodes, n, param_type, {})
       IN  /\ nodes' = out.h
           /\ c_last' = Call("set_parameter_type", n, out.exc)
    /\ UNCHANGED nodes0

NextBuild ==
    \/ \E c \in Containers, n \in Contained, key \in {"a"} :
            set_parameter(c, key, n) /\ UNCHANGED <<vstates, stack, max_meta_count,
                loop_var, found_meta, e_status, e_problems, sweeps, replaced, translated>>
    \/ \E c \in Containers, n \in Contained :
            add_value(c, n) /\ UNCHANGED <<vstates, stack, max_meta_count,
                loop_var, found_meta, e_status, e_problems, sweeps, replaced, translated>>
    \/ \E c \in Containers, n \in Contained, key \in {"a", "0"} :
            build_replace_value(c, key, n) /\ UNCHANGED <<vstates, stack,
                max_meta_count, loop_var, found_meta, e_status, e_problems, sweeps, replaced,
                translated>>
    \/ \E n \in 1..Len(nodes), type_val \in {TYPE_T, TYPE_U} :
            set_type(n, type_val) /\ UNCHANGED <<vstates, stack, max_meta_count,
                loop_var, found_meta, e_status, e_problems, sweeps, replaced, translated>>
    \/ \E n \in 1..Len(nodes), type_val \in CellParams :
            set_item_type(n, type_val) /\ UNCHANGED <<vstates, stack, max_meta_count,
                loop_var, found_meta, e_status, e_problems, sweeps, replaced, translated>>
    \/ \E n \in 1..Len(nodes), param_type \in CellParams :
            build_set_parameter_type(n, param_type) /\ UNCHANGED <<vstates, stack,
                max_meta_count, loop_var, found_meta, e_status, e_problems, sweeps, replaced,
                translated>>

-----------------------------------------------------------------------------
(* post_visit_parsed_node with a visitor that records its calls:           *)
(* astgen/node_visit.py, tests/unit_tests/astgen/test_node_visit.py        *)

\* MockVisitor.__init__: nothing recorded.
IdleVisitor == order = <<>>

\* What hangs below one key of the root: nothing, a simple node, a
\* parameter node with n children (at "a") or a list node with n items.
VisitChoice(kind, n) == [kind |-> kind, n |-> n]
VisitChoices ==
    { VisitChoice("none", 0), VisitChoice("simple", 0) }
    \cup { VisitChoice("param", n) : n \in 0..1 }
    \cup { VisitChoice("list", n) : n \in 0..MaxItems }

\* _mk_parameter / _mk_list / _mk_simple: the node for choice c and its
\* children are built and connected to `parent` at `key`.
Graft(h, parent, key, c) ==
    IF c.kind = "none" THEN h
    ELSE LET id == Len(h) + 1
             kidkey(i) == IF c.kind = "list" THEN IndexKey(i) ELSE "a"
             type_id == CASE c.kind = "list" -> LIST_TYPE_NAME
                          [] c.kind = "simple" -> "string"
                          [] OTHER -> TYPE_T
             top == [ParsedNode(c.kind, type_id) EXCEPT
                        !.parent = parent, !.pkey = key,
                        !.children = [i \in 1..c.n |-> [key |-> kidkey(i), id |-> id + i]]]
             kid(i) == [(IF c.kind = "list" THEN ParsedNode("simple", "string")
                         ELSE ParsedNode("param", TYPE_T)) EXCEPT
                           !.parent = id, !.pkey = kidkey(i)]
         IN  [h EXCEPT ![parent].children = Append(@, [key |-> key, id |-> id])]
             \o << top >> \o [i \in 1..c.n |-> kid(i)]

\* The trees handed to post_visit_parsed_node: a root parameter node whose
\* keys "c", "a" and "b" were set in this order.
VisitTrees ==
    { Graft(Graft(Graft(<< ParsedNode("param", "") >>, 1, "c", c), 1, "a", a), 1, "b", b) :
        a \in VisitChoices, b \in VisitChoices, c \in VisitChoices }

\* post_visit_parsed_node(root, visitor): the stack with the root's
\* VisitState.
visit_start ==
    /\ vstates = <<>>
    /\ StartVisit
    /\ UNCHANGED <<nodes, nodes0, max_meta_count, loop_var, found_meta, e_status,
                   e_problems, sweeps, replaced, translated, order>>

\* One iteration of `while stack` with a popped VisitState that is not
\* complete: it goes back on the stack, followed by its children.
visit_descend ==
    /\ stack # <<>>
    /\ ~is_complete(vstates[TopVS])
    /\ PushChildren
    /\ UNCHANGED <<nodes, nodes0, max_meta_count, loop_var, found_meta, e_status,
                   e_problems, sweeps, replaced, translated, order>>

\* One iteration of `while stack` with a popped VisitState that is
\* complete: MockVisitor.__call__(node.current), then mark_visited.
visit_visitor ==
    /\ stack # <<>>
    /\ is_complete(vstates[TopVS])
    /\ order' = Append(order, vstates[TopVS].current)
    /\ stack' = Pop(stack)
    /\ vstates' = mark_visited(vstates, TopVS)
    /\ UNCHANGED <<nodes, nodes0, max_meta_count, loop_var, found_meta, e_status,
                   e_problems, sweeps, replaced, translated>>

NextVisit ==
    \/ visit_start
    \/ visit_descend
    \/ visit_visitor

-----------------------------------------------------------------------------
(* pre_visit_parsed_node with a visitor that records its calls:            *)
(* astgen/node_visit.py                                                    *)

\* pre_visit_parsed_node(root, visitor): `stack = [root]`.
pre_visit_start ==
    /\ pstack = <<>>
    /\ order = <<>>
    /\ pstack' = <<1>>
    /\ UNCHANGED <<order, p_stage, p_status, p_problems, r_problems, r_invalid,
                   referenced, gen, finish_calls>>

\* One iteration of `while stack`: pop, MockVisitor.__call__(node), extend
\* the stack with the node's ordered children.
pre_visit_visitor ==
    /\ pstack # <<>>
    /\ order' = Append(order, pstack[Len(pstack)])
    /\ pstack' = pre_visit_next(pstack)
    /\ UNCHANGED <<p_stage, p_status, p_problems, r_problems, r_invalid,
                   referenced, gen, finish_calls>>

NextPreVisit ==
    \/ pre_visit_start
    \/ pre_visit_visitor

-----------------------------------------------------------------------------
(* finish_tree on a tree without problems: astgen/gen_final.py             *)

\* The trees without problems that collect_errors lets through: every
\* parameter node carries the type that assign_types set for its type id.
FinishTrees ==
    { [n \in 1..Len(h) |->
          IF h[n].kind # "param" THEN h[n]
          ELSE IF n = 1 THEN [h[n] EXCEPT !.type_id = TYPE_U, !.atype = TYPE_U]
          ELSE [h[n] EXCEPT !.atype = h[n].type_id]] : h \in VisitTrees }

\* generate_prepared_script at the point where collect_errors has returned
\* a valid Result.
InitFinish ==
    /\ nodes \in FinishTrees
    /\ nodes0 = nodes
    /\ max_meta_count = 1
    /\ loop_var = 0
    /\ found_meta = FALSE
    /\ e_status = "valid"
    /\ e_problems = <<>>
    /\ sweeps = << 0 >>
    /\ replaced = 0
    /\ translated = <<>>
    /\ vstates = <<>>
    /\ stack = <<>>
    /\ p_stage = "collect"
    /\ p_status = "running"
    /\ p_problems = <<>>
    /\ pstack = <<>>
    /\ r_problems = <<>>
    /\ r_invalid = FALSE
    /\ referenced = { nodes[n].atype : n \in { m \in 1..Len(nodes) : nodes[m].kind = "param" } }
    /\ gen = {}
    /\ finish_calls = 0

NextFinish ==
    \/ map_result_finish_tree /\ UNCHANGED hvars
    \/ lower_visit_descend /\ UNCHANGED hvars
    \/ finish_tree_visitor /\ UNCHANGED hvars
    \/ finish_tree_return

-----------------------------------------------------------------------------
(* Specifications *)

\* The template resolver at rest.
IdleTemplate ==
    /\ refs = [r \in NodeRefs |-> <<>>]
    /\ frames = <<>>
    /\ lists = <<>>
    /\ problems = <<>>
    /\ t_source = "-"
    /\ t_result = <<>>
    /\ t_status = "idle"

\* expand_meta_types at rest.
ExpandRest ==
    /\ max_meta_count = 0
    /\ vstates = <<>>
    /\ stack = <<>>
    /\ loop_var = -1
    /\ found_meta = FALSE
    /\ e_status = "idle"
    /\ e_problems = <<>>
    /\ sweeps = <<>>
    /\ replaced = 0
    /\ translated = <<>>

\* The tree passes at rest.
IdleExpand ==
    /\ nodes = << ParsedNode("param", "") >>
    /\ nodes0 = nodes
    /\ ExpandRest

\* expand_template runs while the tree passes rest.
TemplateInit ==
    InitTemplate /\ IdleExpand /\ InitPipeline /\ IdleValidate /\ CoreHandlers /\ IdleCalls
    /\ IdleVisitor
SpecTemplate == TemplateInit /\ [][NextTemplate /\ UNCHANGED <<evars, pvars, vvars, hvars, cvars, ovars>>]_vars

\* The tree passes run while the template resolver rests.
ExpandInit ==
    InitExpand /\ IdleTemplate /\ InitPipeline /\ IdleValidate /\ CoreHandlers /\ IdleCalls
    /\ IdleVisitor
SpecExpand == ExpandInit /\ [][NextExpand /\ UNCHANGED <<tvars, pvars, vvars, hvars, cvars, ovars>>]_vars

\* generate_prepared_script runs on a parsed tree.
SpecPipeline == ExpandInit /\ [][NextPipeline /\ UNCHANGED <<tvars, vvars, cvars, ovars>>]_vars

\* The assigner and validator sweeps run on a parsed tree.
ValidateInit ==
    InitValidate /\ IdleTemplate /\ ExpandRest /\ CoreHandlers /\ IdleCalls /\ IdleVisitor
SpecValidate == ValidateInit /\ [][NextValidate /\ UNCHANGED <<tvars, cvars, ovars>>]_vars

\* HandlerStore.create runs on an add-in list while everything else rests.
HandlersInit ==
    InitHandlers /\ IdleTemplate /\ IdleExpand /\ InitPipeline /\ IdleValidate /\ IdleCalls
    /\ IdleVisitor

\* A parser-like client builds a tree out of fresh nodes.
BuildInit ==
    InitBuild /\ IdleTemplate /\ ExpandRest /\ InitPipeline /\ IdleValidate /\ CoreHandlers
    /\ IdleVisitor
SpecBuild == BuildInit /\ [][NextBuild /\ UNCHANGED <<tvars, pvars, vvars, hvars, ovars>>]_vars

\* post_visit_parsed_node runs on a parsed tree with a recording visitor.
\* The loop is sequential code: a step that can be taken is taken.
InitVisit ==
    /\ nodes \in VisitTrees
    /\ nodes0 = nodes
    /\ ExpandRest
    /\ IdleVisitor

VisitInit == InitVisit /\ IdleTemplate /\ InitPipeline /\ IdleValidate /\ CoreHandlers /\ IdleCalls
SpecVisit ==
    /\ VisitInit
    /\ [][NextVisit /\ UNCHANGED <<tvars, pvars, vvars, hvars, cvars>>]_vars
    /\ WF_vars(NextVisit /\ UNCHANGED <<tvars, pvars, vvars, hvars, cvars>>)

\* pre_visit_parsed_node runs on a parsed tree with a recording visitor.
SpecPreVisit ==
    /\ VisitInit
    /\ [][NextPreVisit /\ UNCHANGED <<tvars, evars, vvars, hvars, cvars>>]_vars
    /\ WF_vars(NextPreVisit /\ UNCHANGED <<tvars, evars, vvars, hvars, cvars>>)

\* finish_tree runs on a tree without problems.
FinishInit ==
    InitFinish /\ IdleTemplate /\ IdleValidate /\ CoreHandlers /\ IdleCalls /\ IdleVisitor
SpecFinish == FinishInit /\ [][NextFinish /\ UNCHANGED <<tvars, vvars, cvars, ovars>>]_vars

SpecHandlers == HandlersInit /\ [][NextHandlers /\ UNCHANGED <<tvars, evars, pvars, vvars, cvars, ovars>>]_vars


-----------------------------------------------------------------------------
\* C1: when the templates of two references refer to each other, the
\* expansion terminates normally (no unbounded recursion) and has recorded a
\* cycle diagnostic that names both references.
MutualPair(a, b) ==
    /\ a # b
    /\ Len(refs[a]) = 1 /\ Len(refs[b]) = 1
    /\ \E i \in 1..Len(refs[a][1]) : refs[a][1][i] = b
    /\ \E i \in 1..Len(refs[b][1]) : refs[b][1][i] = a

C1_MutualRefsYieldCycleDiagnostic ==
    \A a, b \in NodeRefs :
        (MutualPair(a, b) /\ t_source = a /\ t_status \in {"done", "RecursionError"})
        => /\ t_status = "done"
           /\ \E i \in 1..Len(problems) :
                /\ problems[i].kind = "cycle"
                /\ {problems[i].source, problems[i].other} = {a, b}

-----------------------------------------------------------------------------
(* Claims about expand_meta_types *)

ExpandFinished == e_status \notin {"idle", "sweeping"}

TooManyRounds == ErrorProblem("too_many_rounds", 1)

HasProblem(ps, pr) == \E i \in 1..Len(ps) : ps[i] = pr

\* The tree handed over holds a valid, non-root META_SELF node, and no other
\* macro (the root is no macro either).
SelfReferentialTree ==
    /\ nodes0[1].type_id = ""
    /\ \E n \in 2..Len(nodes0) : nodes0[n].type_id = META_SELF /\ ~nodes0[n].invalid
    /\ \A n \in 2..Len(nodes0) : nodes0[n].type_id \notin {META_ONCE, META_FAIL, META_QUIET}

\* C2: for max_rounds >= 1, expanding a tree with a self-referential macro
\* performs exactly max_rounds sweeps and then returns the too-many-rounds
\* error.
C2_SelfRefReturnsRoundCapError ==
    (max_meta_count >= 1 /\ SelfReferentialTree /\ ExpandFinished)
    => /\ Len(sweeps) = max_meta_count
       /\ e_status = "invalid"
       /\ HasProblem(e_problems, TooManyRounds)

\* C3: expand returns success exactly when one of the first max_rounds
\* sweeps made no replacement, right after the first such sweep; if all
\* max_rounds sweeps made a replacement it returns an invalid Result that
\* carries the too-many-rounds problem.
C3_SuccessIffQuietSweep ==
    (max_meta_count >= 1 /\ ExpandFinished)
    => /\ (e_status = "valid") <=> (\E i \in 1..Len(sweeps) : sweeps[i] = 0)
       /\ \A i \in 1..Len(sweeps) : sweeps[i] = 0 => i = Len(sweeps)
       /\ (Len(sweeps) = max_meta_count /\ \A i \in 1..Len(sweeps) : sweeps[i] > 0)
            => (e_status = "invalid" /\ HasProblem(e_problems, TooManyRounds))

\* No valid node reachable from the root names a macro handler.
FixedPoint(heap) ==
    \A n \in ReachFrom(heap, 1) : heap[n].invalid \/ ~get_meta_handler(heap[n].type_id)

FixedPointOutcome ==
    /\ e_status = "valid"
    /\ translated = <<>>
    /\ \A i \in 1..Len(sweeps) : sweeps[i] = 0
    /\ nodes = nodes0

\* C4 (as stated): expanding a tree that is at its fixed point calls no
\* translate, replaces nothing and returns success with the tree unchanged.
C4_FixedPointAnyRounds ==
    (FixedPoint(nodes0) /\ ExpandFinished) => FixedPointOutcome

\* C4 (amended): for max_rounds >= 1, expanding a tree that is at its fixed
\* point calls no translate, replaces nothing and returns success with the
\* tree (nodes, keys, parent links, problem lists) unchanged.
C4_FixedPointUnchanged ==
    (FixedPoint(nodes0) /\ max_meta_count >= 1)
    => /\ translated = <<>>
       /\ nodes = nodes0
       /\ replaced = 0
       /\ ExpandFinished => FixedPointOutcome

\* Witness of C4: a finished expansion of a fixed-point tree that holds an
\* invalid macro node.
C4_Witness ==
    /\ FixedPoint(nodes0) /\ max_meta_count >= 1 /\ e_status = "valid"
    /\ \E n \in 2..Len(nodes0) : nodes0[n].invalid /\ nodes0[n].type_id \in MetaIds

-----------------------------------------------------------------------------
(* Claims about generate_prepared_script and finish_tree *)

\* Some node of the tree carries an error-level problem.
ErrorInTree ==
    \E n \in Reachable : \E i \in 1..Len(nodes[n].problems) :
        nodes[n].problems[i].level = "error"

\* validate_nodes has returned.
Validated ==
    \/ p_stage \in {"collect", "finish"}
    \/ p_stage = "done" /\ e_status = "valid" /\ p_status \in {"valid", "invalid"}

\* C6: if a node of the tree carries an error-level problem after
\* validation, finish_tree is never invoked, no SyntaxNode is produced and
\* the pipeline returns an invalid Result; finish_tree runs only when no
\* node carries an error-level problem.
C6_ErrorsRefuseLowering ==
    /\ (Validated /\ ErrorInTree)
         => /\ finish_calls = 0
            /\ gen = {}
            /\ p_stage = "done" => p_status = "invalid"
    /\ finish_calls > 0 => ~ErrorInTree

\* Witness of C6: the pipeline has returned an invalid Result for a tree
\* on which validation left an error, without a call of finish_tree.
C6_Witness ==
    /\ p_stage = "done" /\ p_status = "invalid" /\ e_status = "valid"
    /\ finish_calls = 0 /\ gen = {}
    /\ \E n \in Reachable : \E i \in 1..Len(nodes[n].problems) :
            nodes[n].problems[i].kind = "unknown_keys"
    /\ \E i \in 1..Len(p_problems) : p_problems[i].kind = "unknown_keys"

\* C7: the SyntaxNode built for a parameter node whose type declares N
\* fields holds all N field keys, each mapped to a child SyntaxNode, also
\* when the script gave no value under those keys.
C7_FieldsMaterialized ==
    \A g \in gen :
        g.node_type \in DOMAIN Types
        => \A i \in 1..Len(Types[g.node_type].fields) :
              \E j \in 1..Len(g.values) :
                  /\ g.values[j].key = Types[g.node_type].fields[i].key
                  /\ ~g.values[j].literal

-----------------------------------------------------------------------------
(* Claims about validate_node *)

\* validate_node was called on node n.
WasValidated(n) == \E i \in 1..Len(visited) : visited[i] = n

\* The number of problems of a kind in a problem list.
CountKind(ps, kind) == Cardinality({ i \in 1..Len(ps) : ps[i].kind = kind })

\* The number of problems of a kind that name a key.
CountKey(ps, kind, key) ==
    Cardinality({ i \in 1..Len(ps) : ps[i].kind = kind /\ ps[i].key = key })

\* C8: validating a list node with fewer items than the declared minimum
\* adds exactly one minimum-count problem, with more items than the
\* declared maximum exactly one maximum-count problem, and no count problem
\* when the count lies within [min, max] (max optional).
C8_ListCountBounds ==
    \A n \in 1..Len(nodes) :
        (nodes[n].kind = "list" /\ WasValidated(n) /\ nodes[n].item_type # NoParam)
        => LET decl == nodes[n].item_type
               count == Len(nodes[n].children)
           IN  /\ CountKind(nodes[n].problems, "min_count")
                    = (IF count < decl.min THEN 1 ELSE 0)
               /\ CountKind(nodes[n].problems, "max_count")
                    = (IF decl.max >= 0 /\ count > decl.max THEN 1 ELSE 0)

\* Node n is a validated parameter node stored under a key that its typed
\* parameter-node parent declares.
UnderDeclaredKey(n) ==
    /\ nodes[n].kind = "param" /\ WasValidated(n)
    /\ nodes[n].parent # 0
    /\ nodes[nodes[n].parent].kind = "param"
    /\ nodes[nodes[n].parent].atype \in DOMAIN Types
    /\ ParamFor(nodes[nodes[n].parent].atype, nodes[n].pkey) # NoParam

\* Exactly one type-mismatch problem on n when the declared type differs
\* from the assigned type, none when they are the same.
MismatchReported(n) ==
    CountKind(nodes[n].problems, "type_mismatch")
        = (IF ParamFor(nodes[nodes[n].parent].atype, nodes[n].pkey).type # nodes[n].atype
           THEN 1 ELSE 0)

C10_KeyDifferenceReported ==
    \A n \in 1..Len(nodes) :
        (/\ v_stage = "done" /\ WasValidated(n)
         /\ nodes[n].kind = "param" /\ nodes[n].parent # 0
         /\ nodes[n].atype \in DOMAIN Types)
        => LET params == Types[nodes[n].atype].parameters
               declared == { params[i].key : i \in 1..Len(params) }
           IN  /\ \A i \in 1..Len(params) :
                     CountKey(nodes[n].problems, "missing_key", params[i].key)
                       = (IF params[i].required /\ params[i].key \notin keys(n)
                          THEN 1 ELSE 0)
               /\ \A i \in 1..Len(nodes[n].children) :
                     LET c == nodes[n].children[i]
                     IN  CountKey(nodes[c.id].problems, "unknown_key", c.key)
                           = (IF c.key \notin declared THEN 1 ELSE 0)

-----------------------------------------------------------------------------
(* Claims about assign_types_to_node *)

\* The assigner's sweep has returned normally (nodes_t is what it left).
Assigned == nodes_t # <<>>

\* The nodes strictly below n in the heap.
Descendants(heap, n) == ReachFrom(heap, n) \ {n}

\* Node n is a parameter node the parser left valid whose type id has no
\* handler.
UnknownTyped(n) ==
    /\ nodes0[n].kind = "param" /\ nodes0[n].parent # 0
    /\ ~nodes0[n].invalid
    /\ ~handlers_get(nodes0[n].type_id)

\* C11: when the assigner meets a parameter node whose type id has no
\* handler, the node gets a validation error and no assigned type, and no
\* descendant of it receives an assigned type, a parent-context descriptor
\* or a referenced-type mark during the pass.
C11_UnknownTypeStopsTyping ==
    \A n \in 1..Len(nodes0) :
        (Assigned /\ UnknownTyped(n))
        => /\ CountKind(nodes_t[n].problems, "unknown_type") = 1
           /\ nodes_t[n].invalid
           /\ nodes_t[n].atype = "none"
           /\ \A d \in Descendants(nodes_t, n) :
                 /\ nodes_t[d].atype = nodes0[d].atype
                 /\ nodes_t[d].ptype = NoParam
                 /\ nodes_t[d].item_type = NoParam
                 /\ nodes0[d].kind = "param" => nodes0[d].type_id \notin referenced

\* Node n is a parameter node for which the assigner has found the handler:
\* a non-root node the parser left valid, of a registered type, that the
\* sweep has visited.
HandlerFound(n) ==
    /\ nodes0[n].kind = "param" /\ nodes0[n].parent # 0
    /\ ~nodes0[n].invalid
    /\ handlers_get(nodes0[n].type_id)
    /\ (Assigned \/ nodes[n].atype # "none")

\* The type ids of the fields a type declares.
FieldTypes(type_id) ==
    { Types[type_id].fields[i].type : i \in 1..Len(Types[type_id].fields) }

\* C12 (as stated): once the assigner has found the handler of a parameter
\* node, the referenced-id set holds the handler's type id and the type id
\* of every field the type declares; the set only grows during the pass.
C12_AllFieldsReferenced ==
    /\ [](\A n \in 1..Len(nodes0) :
            HandlerFound(n)
            => ({nodes0[n].type_id} \cup FieldTypes(nodes0[n].type_id)) \subseteq referenced)
    /\ [][referenced \subseteq referenced']_vars

\* C12 (amended): the same, for the fields whose type has a registered
\* handler (a field type without handler is reported as a problem of the
\* node and is not marked).
C12_HandledFieldsReferenced ==
    /\ [](\A n \in 1..Len(nodes0) :
            HandlerFound(n)
            => ({nodes0[n].type_id}
                \cup { f \in FieldTypes(nodes0[n].type_id) : handlers_get(f) })
               \subseteq referenced)
    /\ [][referenced \subseteq referenced']_vars

\* Witness of C12: the sweep is over a tree whose only typed node is of
\* type u; the set holds u and the types f and t of its two fields.
C12_Witness ==
    /\ Assigned
    /\ Len(nodes0) = 2 /\ HandlerFound(2) /\ nodes0[2].type_id = TYPE_U
    /\ referenced = {TYPE_U, TYPE_F, TYPE_T}

-----------------------------------------------------------------------------
(* Claims about the handler registry *)

\* C13: the registry that finalize returns holds a handler exactly for each
\* registered id that is in the referenced-id set accumulated during
\* assignment (ids of the set that are not registered are ignored), each
\* bound to the same handler as before, and the unpruned registry is as
\* HandlerStore.create built it.
C13_PrunedToReferenced ==
    (p_stage = "done" /\ p_status = "valid")
    => /\ DOMAIN prepared_handlers = DOMAIN type_handlers \cap referenced
       /\ \A k \in DOMAIN prepared_handlers : prepared_handlers[k] = type_handlers[k]
       /\ type_handlers = register_type_handlers(<<>>, <<>>, <<>>, CoreAddIn, 1).th

\* Witness of C13: the pipeline has returned a registry that holds some,
\* but not all, of the registered handlers.
C13_Witness ==
    /\ p_stage = "done" /\ p_status = "valid"
    /\ prepared_handlers # <<>>
    /\ DOMAIN prepared_handlers # DOMAIN type_handlers
    /\ referenced # {}

\* The add-in whose handler holds the id `key` in the finished registry.
FirstRegistrant(key) ==
    IF key \in DOMAIN type_handlers THEN type_handlers[key].add_in
    ELSE meta_handlers[key].add_in

\* The number of handlers (type or macro) the add-in list offers for an id.
Offers(key) ==
    Cardinality({ <<i, j>> \in (1..Len(add_ins)) \X (1..2) :
                    j <= Len(add_ins[i].types) /\ add_ins[i].types[j] = key })
    + Cardinality({ <<i, j>> \in (1..Len(add_ins)) \X (1..1) :
                    j <= Len(add_ins[i].metas) /\ add_ins[i].metas[j] = key })

\* C14: HandlerStore.create returns an invalid result whenever an id is
\* registered more than once across the type handlers and macro handlers
\* of the add-in list, and the duplicate-id error names both offending
\* add-ins.
C14_DuplicateNamesBoth ==
    h_status \in {"valid", "invalid"}
    => /\ (h_status = "invalid") <=> (\E key \in HandlerIds : Offers(key) > 1)
       /\ \A i \in 1..Len(h_problems) :
             h_problems[i].kind = "duplicate"
             => {FirstRegistrant(h_problems[i].key)} \subseteq h_problems[i].addins

-----------------------------------------------------------------------------
(* Claims about the synthesized root type *)

\* The parameters of the synthesized type that carry the key.
RootParams(key) ==
    { i \in 1..Len(root_type.parameters) : root_type.parameters[i].key = key }

\* C15: the synthesized "-root" type declares exactly one parameter for
\* every top-level key present in the root node, required and constrained
\* to the type assigned to the child at that key, and no parameter for a
\* key that is not present.
C15_RootTypeMirrorsKeys ==
    v_stage = "rooted"
    => /\ root_type.built /\ root_type.type_id = ROOT_TYPE_ID
       /\ \A k \in keys(1) :
             /\ Cardinality(RootParams(k)) = 1
             /\ \A i \in RootParams(k) :
                   /\ root_type.parameters[i].required
                   /\ root_type.parameters[i].type = nodes[ChildAt(1, k)].atype
       /\ \A i \in 1..Len(root_type.parameters) : root_type.parameters[i].key \in keys(1)

-----------------------------------------------------------------------------
(* Claims about the lookup of forward references *)

\* The innermost activation of _recursive_expand is at a forward reference
\* that the cycle test let pass.
AtForwardReference ==
    /\ t_status = "running"
    /\ Top.idx <= Len(refs[Top.ref][1])
    /\ PartAt(Top.ref, Top.idx).tag = "CodeReference"
    /\ ~PyIn(PartAt(Top.ref, Top.idx), lists[Top.vis])

\* The step leaves a placeholder of the kind in place of the reference,
\* records one diagnostic of the kind and expands no fragment.
PlaceholderStep(kind) ==
    LET part == PartAt(Top.ref, Top.idx)
    IN  /\ problems' = Append(problems, LookupProblem(kind, part.path))
        /\ t_status' = "running"
        /\ Len(frames') = Len(frames)
        /\ frames'[Len(frames)].ret = Append(Top.ret, Token(kind, part.path, part.purpose))

\* The step starts the expansion of the one fragment of the reference and
\* records no diagnostic.
ExpansionStep ==
    LET part == PartAt(Top.ref, Top.idx)
    IN  /\ problems' = problems
        /\ t_status' = "running"
        /\ Len(frames') = Len(frames) + 1
        /\ frames'[Len(frames')].ref = part.path
        /\ frames'[Len(frames')].ret = <<>>

\* The text of a finished fragment lands in the caller's text, where the
\* reference stood.
SubstitutionStep ==
    (t_status = "running" /\ Top.idx > Len(refs[Top.ref][1]) /\ Len(frames) > 1)
    => /\ Len(frames') = Len(frames) - 1
       /\ frames'[Len(frames')].ret = frames[Len(frames) - 1].ret \o Top.ret

\* C16: at a forward reference (reference, purpose), zero registered
\* fragments give a placeholder and one no-template-found diagnostic, more
\* than one fragment a placeholder and one multiple-templates diagnostic,
\* in both cases without expanding a fragment; exactly one fragment is
\* expanded and substituted in place, with no diagnostic for the lookup.
C16_LookupByFragmentCount ==
    [][ /\ AtForwardReference
          => LET part == PartAt(Top.ref, Top.idx)
                 count == Len(get_for_purpose(part.path, part.purpose))
             IN  /\ count = 0 => PlaceholderStep("unknown")
                 /\ count > 1 => PlaceholderStep("multiple")
                 /\ count = 1 => ExpansionStep
        /\ SubstitutionStep ]_vars

-----------------------------------------------------------------------------
(* Claims about the write-once cells *)

\* The call just made wrote (or tried to write) the parent link of a node.
AdoptionCall(call) ==
    /\ call.op \in {"set_parameter", "add_value", "replace_value"}
    /\ call.exc \notin {"ValueError", "KeyError", "IndexError"}

\* Some container holds node n.
Holds(heap, n) ==
    \E c \in 1..Len(heap) : \E i \in 1..Len(heap[c].children) : heap[c].children[i].id = n

\* C17: each write-once cell (parent link, assigned type of a parameter
\* node, item type of a list node, parameter-type cache of a
\* ParentReference) accepts its first write and aborts with a RuntimeError
\* on any second write, whatever the value, leaving the first value in
\* place; a container that tries to adopt a node that already has a parent
\* is left as it was.
C17_WriteOnceCells ==
    [][ LET call == c_last'
            n == call.node
        IN  /\ AdoptionCall(call)
                => IF parent_is_set(nodes[n])
                   THEN call.exc = "RuntimeError" /\ nodes' = nodes
                   ELSE call.exc = "" /\ parent_is_set(nodes'[n]) /\ Holds(nodes', n)
            /\ call.op = "set_type"
                => IF nodes[n].atype # "none"
                   THEN call.exc = "RuntimeError" /\ nodes' = nodes
                   ELSE call.exc = "" /\ nodes'[n].atype # "none"
            /\ call.op = "set_item_type"
                => IF nodes[n].item_type # NoParam
                   THEN call.exc = "RuntimeError" /\ nodes' = nodes
                   ELSE call.exc = "" /\ nodes'[n].item_type # NoParam
            /\ call.op = "set_parameter_type"
                => IF nodes[n].ptype # NoParam
                   THEN call.exc = "RuntimeError" /\ nodes' = nodes
                   ELSE call.exc = "" /\ nodes'[n].ptype # NoParam
            /\ \A m \in 1..Len(nodes) :
                  /\ parent_is_set(nodes[m])
                        => /\ nodes'[m].parent = nodes[m].parent
                           /\ nodes'[m].pkey = nodes[m].pkey
                  /\ (nodes[m].kind = "param" /\ nodes[m].atype # "none")
                        => nodes'[m].atype = nodes[m].atype
                  /\ nodes[m].item_type # NoParam => nodes'[m].item_type = nodes[m].item_type
                  /\ nodes[m].ptype # NoParam => nodes'[m].ptype = nodes[m].ptype ]_vars

\* Witness of C17: a replace_value that offered a node with a parent was
\* refused, on a heap where the three other kinds of cell are written.
C17_Witness ==
    /\ c_last = Call("replace_value", 3, "RuntimeError")
    /\ parent_is_set(nodes[3]) /\ nodes[3].ptype # NoParam
    /\ nodes[1].atype # "none"
    /\ nodes[2].item_type # NoParam

-----------------------------------------------------------------------------
(* C18: a macro type id on the root node                                    *)

\* The visitor of expand_meta_types is about to run on the root node, the
\* root is valid and its type id names a macro handler.
RootIsMacro ==
    /\ e_status = "sweeping"
    /\ stack # <<>>
    /\ is_complete(vstates[TopVS])
    /\ vstates[TopVS].current = 1
    /\ ~parent_is_set(nodes[1])
    /\ ~is_not_valid(1)
    /\ get_meta_handler(nodes[1].type_id)

\* C18: when the root node's type id names a macro handler, the visitor
\* attaches an error-level problem to the root and returns normally:
\* translate is not invoked on the root and the root is not replaced.
C18_RootMacroGetsProblem ==
    [][RootIsMacro =>
          /\ Len(nodes'[1].problems) = Len(nodes[1].problems) + 1
          /\ is_error(nodes'[1].problems[Len(nodes'[1].problems)])
          /\ nodes'[1].invalid
          /\ e_status' = "sweeping"
          /\ translated' = translated
          /\ replaced' = replaced]_vars

\* The part of C18 that does not depend on the message: translate is never
\* invoked on the root and the root is never replaced.
C18_RootNeverTranslated ==
    [][RootIsMacro => translated' = translated /\ replaced' = replaced]_vars

-----------------------------------------------------------------------------
(* C20: the parent link of a node replaced by macro expansion               *)

\* The visitor of expand_meta_types is about to replace node n in its parent:
\* n is valid, has a parent, and its macro handler's translate succeeds.
IsReplaced(n) ==
    /\ e_status = "sweeping"
    /\ stack # <<>>
    /\ is_complete(vstates[TopVS])
    /\ vstates[TopVS].current = n
    /\ ~is_not_valid(n)
    /\ get_meta_handler(nodes[n].type_id)
    /\ parent_is_set(nodes[n])
    /\ translate(n).valid

\* C20: after macro expansion replaces a node in its parent, the replaced
\* node's parent link is cleared (get_parent() returns none).
C20_ReplacedNodeLosesParent ==
    [][\A n \in 1..Len(nodes) :
          IsReplaced(n) => ~parent_is_set(nodes'[n])]_vars

\* The part of C20 that the code does: the parent's slot holds the new node,
\* whose parent link names the container.
C20_ReplacementAdopted ==
    [][\A n \in 1..Len(nodes) :
          IsReplaced(n) =>
              LET new == Len(nodes) + 1
                  i == CHOOSE j \in 1..Len(nodes[nodes[n].parent].children) :
                           nodes[nodes[n].parent].children[j].key = nodes[n].pkey
              IN  /\ nodes'[nodes[n].parent].children[i].id = new
                  /\ nodes'[new].parent = nodes[n].parent
                  /\ nodes'[new].pkey = nodes[n].pkey]_vars

-----------------------------------------------------------------------------
(* C19: the order of post_visit_parsed_node                                 *)

\* post_visit_parsed_node has returned: it was started and its stack is
\* empty.
VisitReturned == vstates # <<>> /\ stack = <<>>

\* The positions of the recorded calls on node n.
Calls(n) == { i \in 1..Len(order) : order[i] = n }

\* The subtree of n: n and its descendants.
Subtree(n) == ReachFrom(nodes, n)

\* Each reachable node was visited at most once, and exactly once when the
\* traversal has returned.
VisitedOnce ==
    /\ \A i \in 1..Len(order) : order[i] \in Reachable /\ Calls(order[i]) = {i}
    /\ VisitReturned => \A n \in Reachable : Calls(n) # {}

\* A node is visited only after all its descendants.
DescendantsFirst ==
    \A i \in 1..Len(order) :
        \A d \in Descendants(nodes, order[i]) : \E j \in 1..(i - 1) : order[j] = d

\* Of two children of one node, the subtree of the child with the greater
\* key is visited completely before any node of the other child's subtree.
GreaterKeyFirst ==
    \A n \in Reachable :
        \A x, y \in 1..Len(nodes[n].children) :
            Rank(nodes[n].children[x].key) > Rank(nodes[n].children[y].key) =>
                \A j \in 1..Len(order) :
                    order[j] \in Subtree(nodes[n].children[y].id) =>
                        \A g \in Subtree(nodes[n].children[x].id) :
                            \E i \in 1..(j - 1) : order[i] = g

\* C19: post_visit_parsed_node calls the visitor exactly once per reachable
\* node, on a node only after all its descendants, sibling subtrees in
\* descending key order (each finished before the next starts), and it
\* terminates with an empty stack.
C19_PostOrderDescendingKeys ==
    /\ [](VisitedOnce /\ DescendantsFirst /\ GreaterKeyFirst)
    /\ <>[]VisitReturned

\* A traversal has returned from a tree in which the root has three
\* children, each with children of its own, one of them a list node with
\* two items.
C19_Witness ==
    /\ VisitReturned
    /\ Len(nodes[1].children) = 3
    /\ \A i \in 1..3 : nodes[nodes[1].children[i].id].children # <<>>
    /\ \E i \in 1..3 :
          LET c == nodes[1].children[i].id
          IN  nodes[c].kind = "list" /\ Len(nodes[c].children) = 2
    /\ Len(order) = Cardinality(Reachable)

-----------------------------------------------------------------------------
(* C21: the order of pre_visit_parsed_node                                  *)

\* pre_visit_parsed_node has returned: it visited something and its stack
\* is empty.
PreVisitReturned == order # <<>> /\ pstack = <<>>

\* Each reachable node was visited at most once, and exactly once when the
\* traversal has returned.
PreVisitedOnce ==
    /\ \A i \in 1..Len(order) : order[i] \in Reachable /\ Calls(order[i]) = {i}
    /\ PreVisitReturned => \A n \in Reachable : Calls(n) # {}

\* No node is visited before one of its ancestors: when a node is visited,
\* its parent was visited already.
AncestorsFirst ==
    /\ \A i \in 1..Len(order) :
          \A d \in Descendants(nodes, order[i]) : \A j \in Calls(d) : i < j
    /\ \A i \in 1..Len(order) :
          parent_is_set(nodes[order[i]]) =>
              \E j \in 1..(i - 1) : order[j] = nodes[order[i]].parent

\* C21: pre_visit_parsed_node calls the visitor exactly once for every node
\* reachable from the root, on every node before any of its descendants (so
\* a node's parent was processed when the node is visited), and it
\* terminates with an empty stack.
C21_PreOrderParentsFirst ==
    /\ [](PreVisitedOnce /\ AncestorsFirst)
    /\ <>[]PreVisitReturned

\* A pre-order traversal has returned from a tree in which the root has
\* three children, each with children of its own.
C21_Witness ==
    /\ PreVisitReturned
    /\ Len(nodes[1].children) = 3
    /\ \A i \in 1..3 : nodes[nodes[1].children[i].id].children # <<>>
    /\ Len(order) = Cardinality(Reachable)
    /\ order[1] = 1

-----------------------------------------------------------------------------
(* C22: what a splice changes                                               *)

\* The keys of container p on heap h, in the order the container holds them.
KeySeq(h, p) == [i \in 1..Len(h[p].children) |-> h[p].children[i].key]

\* C22: on a successful translate of the child at key k of parent p, after
\* the splice p's child at k is the translated subtree, whose parent link is
\* (p, k); the keys of p and every other child of p are unchanged, and no
\* node outside p is modified.
C22_SpliceFrame ==
    [][\A n \in 1..Len(nodes) :
          IsReplaced(n) =>
              LET p == nodes[n].parent
                  k == nodes[n].pkey
                  new == Len(nodes) + 1
              IN  /\ Len(nodes') > Len(nodes)
                  /\ \E i \in 1..Len(nodes'[p].children) :
                        nodes'[p].children[i] = [key |-> k, id |-> new]
                  /\ nodes'[new].parent = p
                  /\ nodes'[new].pkey = k
                  /\ KeySeq(nodes', p) = KeySeq(nodes, p)
                  /\ \A i \in 1..Len(nodes[p].children) :
                        nodes[p].children[i].key # k =>
                            nodes'[p].children[i] = nodes[p].children[i]
                  /\ nodes'[p] = [nodes[p] EXCEPT !.children = nodes'[p].children]
                  /\ \A m \in (1..Len(nodes)) \ {p} : nodes'[m] = nodes[m]]_vars

\* A splice has happened below a parent that holds another child as well,
\* and one has happened below a list node.
C22_Witness ==
    \E n \in (Len(nodes0) + 1)..Len(nodes) :
        /\ parent_is_set(nodes[n])
        /\ nodes[n].parent <= Len(nodes0)
        /\ ChildAt(nodes[n].parent, nodes[n].pkey) = n
        /\ \/ Len(nodes[nodes[n].parent].children) = 2
           \/ nodes[nodes[n].parent].kind = "list"

-----------------------------------------------------------------------------
(* C23: a translate that fails                                              *)

\* The visitor of expand_meta_types is about to call translate on node n
\* and translate will fail.
TranslateFails(n) ==
    /\ e_status = "sweeping"
    /\ stack # <<>>
    /\ is_complete(vstates[TopVS])
    /\ vstates[TopVS].current = n
    /\ ~nodes[n].invalid
    /\ get_meta_handler(nodes[n].type_id)
    /\ parent_is_set(nodes[n])
    /\ ~translate(n).valid

\* The step of the visitor on a node whose translate fails: nothing is
\* replaced, the changed flag is not touched and the problems that translate
\* reported are attached to the node.
FailureStep ==
    \A n \in 1..Len(nodes) :
        TranslateFails(n) =>
            /\ Len(nodes') = Len(nodes)
            /\ \A m \in (1..Len(nodes)) \ {n} : nodes'[m] = nodes[m]
            /\ nodes'[n].parent = nodes[n].parent
            /\ nodes'[n].pkey = nodes[n].pkey
            /\ nodes'[n].children = nodes[n].children
            /\ nodes'[n].problems = nodes[n].problems \o translate(n).problems
            /\ found_meta' = found_meta
            /\ replaced' = replaced
            /\ translated' = Append(translated, n)

\* translate was called at most once on a node for which it fails.
NoRetry ==
    \A i, j \in 1..Len(translated) :
        (translated[i] = translated[j] /\ ~translate(translated[i]).valid) => i = j

\* C23: when translate fails for a node, the node stays at its position,
\* it does not set the changed flag, the problems translate reported are
\* attached to it, and translate is not called on it again in this sweep or
\* in a later sweep of the same expand call.
C23_FailedTranslateStays ==
    /\ []NoRetry
    /\ [][FailureStep]_vars

\* expand_meta_types returned after a second sweep over a tree in which
\* translate failed for a node during the first sweep; the node is still
\* the child of its parent.
C23_Witness ==
    /\ e_status = "valid"
    /\ Len(sweeps) >= 2
    /\ \E i \in 1..Len(translated) :
          LET n == translated[i]
          IN  /\ ~translate(n).valid
              /\ ChildAt(nodes[n].parent, nodes[n].pkey) = n
              /\ nodes[n].problems # <<>>

-----------------------------------------------------------------------------
(* C24: round-cap exhaustion and the pipeline                               *)

\* expand_meta_types is over and every one of its max_meta_count sweeps made
\* a replacement.
RoundsExhausted ==
    /\ ExpandFinished
    /\ Len(sweeps) = max_meta_count
    /\ \A i \in 1..Len(sweeps) : sweeps[i] > 0

\* None of assign_types, validate_nodes, collect_errors and finish_tree has
\* run.
NoLaterStage ==
    /\ p_stage \in {"expand", "done"}
    /\ pstack = <<>>
    /\ referenced = {}
    /\ r_problems = <<>>
    /\ gen = {}
    /\ finish_calls = 0
    /\ nodes_t = <<>>

\* After round-cap exhaustion no later stage runs on the tree.
C24_NoLaterStage == RoundsExhausted => NoLaterStage

\* C24: once expand has exhausted the round cap, none of type assignment,
\* validation, error collection or lowering runs, and the pipeline result is
\* invalid and carries the round-cap diagnostic.
C24_RoundCapFatal ==
    RoundsExhausted =>
        /\ NoLaterStage
        /\ p_stage = "done" => /\ p_status = "invalid"
                               /\ HasProblem(p_problems, TooManyRounds)

-----------------------------------------------------------------------------
(* C25: a parameter node as an item of a list                               *)

\* Node n is a validated parameter node with an assigned type, stored as an
\* item of a list node whose item type is set.
TypedListItem(n) ==
    /\ nodes[n].kind = "param" /\ WasValidated(n)
    /\ nodes[n].atype \in DOMAIN Types
    /\ nodes[n].parent # 0
    /\ nodes[nodes[n].parent].kind = "list"
    /\ nodes[nodes[n].parent].item_type # NoParam

\* C25: validating a parameter node that is an item of a list adds no
\* type-mismatch problem when the node's assigned type is the list's item
\* type, and adds one when it is a different type.
C25_ListItemMismatch ==
    \A n \in 1..Len(nodes) :
        TypedListItem(n) =>
            CountKind(nodes[n].problems, "list_item_mismatch")
                = (IF nodes[nodes[n].parent].item_type.type # nodes[n].atype THEN 1 ELSE 0)

\* The half of C25 that the code does: an item of a different type gets
\* one mismatch problem.
C25_OtherTypeReported ==
    \A n \in 1..Len(nodes) :
        (TypedListItem(n) /\ nodes[nodes[n].parent].item_type.type # nodes[n].atype)
            => CountKind(nodes[n].problems, "list_item_mismatch") = 1

-----------------------------------------------------------------------------
(* C26: finish_tree on a tree without problems                              *)

\* The SyntaxNodes that gen holds for node n.
Built(n) == { g \in gen : g.ptr = node_ptr(n) }

\* The value map of SyntaxNode g has exactly the keys of node n: a simple
\* child is mapped to its literal value, a container child to the
\* SyntaxNode built for it.
ValuesMirror(g, n) ==
    /\ Len(g.values) = Len(nodes[n].children)
    /\ { g.values[j].key : j \in 1..Len(g.values) } = keys(n)
    /\ \A i \in 1..Len(nodes[n].children) :
          LET c == nodes[n].children[i]
          IN  \E j \in 1..Len(g.values) :
                /\ g.values[j].key = c.key
                /\ IF nodes[c.id].kind = "simple"
                   THEN g.values[j].literal /\ g.values[j].value = c.id
                   ELSE /\ ~g.values[j].literal
                        /\ g.values[j].node = node_ptr(c.id)
                        /\ Built(c.id) # {}

-----------------------------------------------------------------------------
(* C27: the currently-expanding stack of the template resolver              *)

\* The `visiting` list that the innermost activation sees holds one entry
\* per expansion still in progress: the references of its callers.
StackOfCallers ==
    lists[Top.vis] = [i \in 1..(Len(frames) - 1) |-> NodeReference(frames[i].ref)]

\* C27: the currently-expanding stack is balanced: when the expansion of a
\* forward reference returns, the expanding frame sees the stack it had
\* before the reference was pushed, for chains of any depth, so the stack
\* always holds exactly the references whose expansion is in progress.
C27_VisitingBalanced ==
    (t_status = "running" /\ frames # <<>>) => StackOfCallers

-----------------------------------------------------------------------------
(* C28: the problems carried by the pipeline's Result                       *)

\* collect_errors ran and the pipeline returned a Result.
Collected ==
    p_stage = "done" /\ e_status = "valid" /\ p_status \in {"valid", "invalid"}

\* Every Problem attached to a node of the tree is among the problems of
\* the pipeline's Result.
AllProblemsCarried ==
    \A n \in Reachable : \A i \in 1..Len(nodes[n].problems) :
        HasProblem(p_problems, nodes[n].problems[i])

\* C28: the Result returned by the pipeline contains every Problem, of any
\* level, attached to a node at error-collection time, both when lowering
\* is refused and when it succeeds.
C28_NoProblemDropped == Collected => AllProblemsCarried

\* The half of C28 that the code does: when lowering is refused the Result
\* carries every Problem of the tree.
C28_RefusedCarriesAll == (Collected /\ p_status = "invalid") => AllProblemsCarried

-----------------------------------------------------------------------------
(* C29: macro-typed nodes and lowering                                      *)

\* Node n carries an error-level problem.
HasError(n) == \E i \in 1..Len(nodes[n].problems) : nodes[n].problems[i].level = "error"

\* The macro-typed nodes reachable from the root.
MacroNodes == { n \in Reachable : get_meta_handler(nodes[n].type_id) }

\* No SyntaxNode has a macro for its type, and none was built for a
\* macro-typed node.
NoMacroLowered ==
    /\ \A g \in gen : ~get_meta_handler(g.node_type)
    /\ \A n \in MacroNodes : \A g \in gen : g.ptr # node_ptr(n)

\* C29 (as stated): whenever expand returns success, every reachable node
\* whose type id names a macro handler carries an error problem, so any
\* SyntaxNode that is produced has a type that is not a macro.
C29_MacroNodesCarryError ==
    /\ e_status = "valid" => \A n \in MacroNodes : HasError(n)
    /\ NoMacroLowered

\* C29 (amended): whenever expand returns success, every reachable node
\* whose type id names a macro handler is not valid, so no SyntaxNode is
\* built for it and any SyntaxNode that is produced has a type that is not
\* a macro.
C29_MacroNodesInvalid ==
    /\ e_status = "valid" => \A n \in MacroNodes : nodes[n].invalid
    /\ NoMacroLowered

\* expand returned success for a tree that still holds a macro-typed node
\* whose translate failed without reporting a problem, next to one whose
\* translate reported an error, and the pipeline has returned.
C29_Witness ==
    /\ e_status = "valid" /\ p_stage = "done"
    /\ \E n \in MacroNodes : nodes[n].invalid /\ ~HasError(n)
    /\ \E n \in MacroNodes : HasError(n)

-----------------------------------------------------------------------------
(* C30: parent links of the stored children.                               *)

\* The child stored at position i of container p points back at p with the
\* key it is stored under.
LinkedBack(p, i) ==
    LET c == nodes[p].children[i]
    IN  nodes[c.id].parent = p /\ nodes[c.id].pkey = c.key

\* No key of container p is stored twice.
UniqueKeys(p) ==
    \A i, j \in 1..Len(nodes[p].children) :
        nodes[p].children[i].key = nodes[p].children[j].key => i = j

\* The items of list node p are stored under the indices 0..n-1, in order.
DenseIndices(p) ==
    \A i \in 1..Len(nodes[p].children) : nodes[p].children[i].key = IndexKey(i)

\* C30: after any sequence of set_parameter, add_value and replace_value
\* calls, whether they return or raise, every child stored at key k of a
\* container p has a parent link whose node is p and whose key is k; the keys
\* of a parameter node are unique and the indices of a list node are 0..n-1.
C30_ParentLinksConsistent ==
    \A p \in 1..Len(nodes) :
        /\ \A i \in 1..Len(nodes[p].children) : LinkedBack(p, i)
        /\ UniqueKeys(p)
        /\ nodes[p].kind = "list" => DenseIndices(p)

\* A list node holds one item, which took the place of a node that was
\* stored at index 0 before and still points at the list; the last call
\* tried to store an adopted node a second time and was refused.
C30_Witness ==
    /\ \E p \in 1..Len(nodes) :
          /\ nodes[p].kind = "list"
          /\ Len(nodes[p].children) = 1
          /\ \E n \in 1..Len(nodes) :
                /\ n # nodes[p].children[1].id
                /\ nodes[n].parent = p /\ nodes[n].pkey = "0"
    /\ c_last.exc = "RuntimeError"
    /\ c_last.op \in {"add_value", "set_parameter", "replace_value"}

====
